---- MODULE Spec2Model ----
(***************************************************************************)
(* Matching and settlement engine of the paper-trading service             *)
(* (src/src/order/order.service.ts, UserService in src/unnamed/part_009,   *)
(* IdMutex in src/unnamed/part_000).                                       *)
(*                                                                         *)
(* The service is one Node.js process.  Code between two awaits of real    *)
(* I/O (a storage read or write) runs atomically; at such an await any     *)
(* other request, tick or I/O completion may run.  An operation in flight  *)
(* is a task (a slot of `tasks`) whose pc names the I/O it is waiting for. *)
(* One action = the completion of that I/O (its effect on storage is       *)
(* applied there) followed by the synchronous code up to the next I/O.     *)
(* Consecutive reads of data that no modelled operation writes (the user   *)
(* record, the symbol record) are folded into the neighbouring step.       *)
(* Promise continuations that need no I/O (a lock handed over by release,  *)
(* the first segment of a fire-and-forget call) run before any other       *)
(* request or I/O completion: they wait in `ready`, the microtask queue,   *)
(* and every other action is disabled while `ready` is not empty.          *)
(*                                                                         *)
(* Numbers: the code computes in floating point.  The model computes in    *)
(* integers on inputs chosen so that every amount, fee, margin and profit  *)
(* the code computes is an integer; fee rates are numerators over 10000.   *)
(* Only the liquidation price is rounded down to an integer, and the       *)
(* tickers used keep away from it.                                         *)
(***************************************************************************)
EXTENDS Integers, Sequences, FiniteSets, TLC

(* ------------------------------ bounds --------------------------------- *)
\* operations in flight at the same time
MaxTasks == 2
\* externalIds the clients use over a run (orders are never deleted)
MaxOrders == 3
\* liquidation orders ("liquidation_<uuid>") over a run
MaxLiq == 2
\* process restarts in a behaviour
MaxRestarts == 1

(* --------------------------- the environment --------------------------- *)
Users == {"u1"}
Assets == {"BTC", "ETH", "USDT"}
SpotSymbol == "BTCUSDT"
FutSymbol == "ETHUSDT"
Symbols == {SpotSymbol, FutSymbol}

\* The symbol records served by ExchangeService.getExchangeInfo.  One
\* exchange per pair, so `symbol` alone stands for `symbol@exchange`.
SymbolInfo(symbol) ==
    IF symbol = SpotSymbol
    THEN [exchange |-> "binance",
          baseAsset |-> [name |-> "BTC", minAmount |-> 1000],
          quoteAsset |-> [name |-> "USDT", minAmount |-> 1]]
    ELSE [exchange |-> "binanceUsdm",
          baseAsset |-> [name |-> "ETH", minAmount |-> 5000],
          quoteAsset |-> [name |-> "USDT", minAmount |-> 1]]

ExchangeOf(symbol) == SymbolInfo(symbol).exchange

isFutures(exchange) ==
    exchange \in {"binanceCoinm", "binanceUsdm", "bybitInverse", "bybitLinear",
                  "okxLinear", "okxInverse", "kucoinLinear", "kucoinInverse",
                  "bitgetCoinm", "bitgetUsdm", "hyperliquidInverse"}

isCoinm(exchange) ==
    exchange \in {"binanceCoinm", "bybitInverse", "okxInverse", "kucoinInverse",
                  "bitgetCoinm", "hyperliquidInverse"}

\* fee rates, in 1/10000
spotMakerFee == 10
usdmMakerFee == 2
coinmMakerFee == 1

getUserFee(type, exchange) ==
    IF type = "maker"
    THEN IF isFutures(exchange)
         THEN (IF isCoinm(exchange) THEN coinmMakerFee ELSE usdmMakerFee)
         ELSE spotMakerFee
    ELSE IF isFutures(exchange)
         THEN (IF isCoinm(exchange) THEN coinmMakerFee * 5 ELSE usdmMakerFee * 2)
         ELSE spotMakerFee

(* ------------------------------ arithmetic ----------------------------- *)
Abs(x) == IF x < 0 THEN 0 - x ELSE x
Max(x, y) == IF x < y THEN y ELSE x

\* x / y on the integers (exact on the inputs of the specifications below)
Div(x, y) == IF x >= 0 THEN x \div y ELSE 0 - ((0 - x) \div y)

\* x * y / z without an intermediate product beyond 32 bits
MulDiv(x, y, z) ==
    IF x >= 0
    THEN (x \div z) * y + ((x % z) * y) \div z
    ELSE 0 - (((0 - x) \div z) * y + (((0 - x) % z) * y) \div z)

\* x * feePerc, feePerc in 1/10000
MulFee(x, feePerc) == MulDiv(x, feePerc, 10000)

(* -------------------------------- ids ---------------------------------- *)
TaskIds == 1..MaxTasks
\* externalIds: 1..MaxOrders are chosen by clients, the rest are the
\* liquidation_<uuid> ids of closeFuturePosition
ClientOrderIds == 1..MaxOrders
LiqOrderIds == (MaxOrders + 1)..(MaxOrders + MaxLiq)
OrderIds == ClientOrderIds \cup LiqOrderIds
\* a position is created by the settlement of one order
PosIds == 1..(MaxOrders + MaxLiq)

\* holder ids of the watch set: order externalIds and position ids
OrderHolder(id) == <<"order", id>>
PositionHolder(id) == <<"position", id>>

(* ------------------------------ records -------------------------------- *)
Terminal == {"FILLED", "CANCELED", "EXPIRED"}

NoOrder ==
    [externalId |-> 0, user |-> "", symbol |-> "", side |-> "", type |-> "",
     price |-> 0, amount |-> 0, quoteAmount |-> 0, filledAmount |-> 0,
     filledQuoteAmount |-> 0, fee |-> 0, feePerc |-> 0, status |-> "NONE",
     reduceOnly |-> FALSE, positionSide |-> ""]

NoPosition ==
    [id |-> 0, user |-> "", symbol |-> "", positionSide |-> "", positionAmt |-> 0,
     entryPrice |-> 0, margin |-> 0, liquidationPrice |-> 0, leverage |-> 0,
     status |-> "NONE", profit |-> 0, fee |-> 0, closePrice |-> 0]

NoTick == [bestBid |-> 0, bestAsk |-> 0, bidQty |-> 0, askQty |-> 0, price |-> 0]
\* no ticker message yet; `late` tells a message older than newDataLimit
NoMsg == [symbol |-> "", data |-> NoTick, late |-> FALSE]

NoLeverage == [leverage |-> 0, locked |-> FALSE, exists |-> FALSE]

\* a free task slot; the locals of every operation, with their defaults.
\* `waited` records that a closeFuturePosition call found its lock held
IdleTask ==
    [kind |-> "idle", pc |-> "", caller |-> "",
     position |-> 0, liq |-> 0, cancels |-> <<>>,
     order |-> NoOrder, expired |-> FALSE, data |-> NoTick,
     baseFree |-> 0, quoteFree |-> 0, leverage |-> 0,
     isFilled |-> FALSE, fill |-> <<0, 0, 0>>, hedge |-> FALSE,
     branch |-> "", current |-> 0, create |-> NoPosition, update |-> NoPosition,
     free |-> 0, locked |-> 0, waited |-> FALSE]

\* PositionSide, and "" for a positionSide that is absent (the field of the
\* DTO, of the order and of the leverage row is optional)
Sides == {"BOTH", "LONG", "SHORT", ""}

VARIABLES
    userModel,         \* storage: the users that have a record
    orderModel,        \* storage: orders by externalId
    positionModel,     \* storage: positions by id
    walletModel,       \* storage: wallet rows by user and asset
    leverageModel,     \* storage: leverage rows by user, symbol and side
    hedgeModel,        \* storage: hedge mode by user
    currentOrders,     \* projection B: orders by externalId (immutable records)
    positionObjects,   \* the position objects of the process, by id: B holds
                       \* references and settlement mutates them in place
    currentPositions,  \* projection B: the ids of the positions in the map
    watchSymbols,      \* watch set C: symbol -> holder ids; {} = no entry
    subscribed,        \* pub/sub channels trade@<symbol> subscribed to
    symbolsMap,        \* symbol cache A: the symbols with a fresh entry
    symbolPriceMap,    \* last price by symbol, 0 = none
    tickerSignatureMap,\* last tick signature by symbol; <<>> = none
    msg,               \* the last ticker message redisCb has received
    restarts,          \* the number of times the process has been restarted
    CreateOrderMutex,  \* IdMutex by (user, symbol)
    UpdateOrderMutex,  \* IdMutex by externalId
    commonMutex,       \* IdMutex by position id (closeFuturePosition)
    leverageQueue,     \* commonMutex by (user, symbol): the lockLeverage and
                       \* unLockLeverage calls waiting for or doing their update
    tasks,             \* operations in flight
    ready              \* microtask queue: tasks whose next segment needs no I/O

vars == <<userModel, orderModel, positionModel, walletModel, leverageModel, hedgeModel,
          currentOrders, positionObjects, currentPositions, watchSymbols,
          subscribed, symbolsMap, symbolPriceMap, tickerSignatureMap, msg,
          restarts, CreateOrderMutex, UpdateOrderMutex, commonMutex, leverageQueue,
          tasks, ready>>

storage == <<userModel, orderModel, positionModel, walletModel, leverageModel,
             hedgeModel>>
projection == <<currentOrders, positionObjects, currentPositions>>
watch == <<watchSymbols, subscribed>>
caches == <<symbolsMap, symbolPriceMap, tickerSignatureMap, msg, restarts>>

(* ------------------------------ IdMutex -------------------------------- *)
\* An IdMutex maps each id to [locked, queue]; an id without an entry in
\* lockMap is [locked |-> FALSE, queue |-> <<>>].
Unlocked == [locked |-> FALSE, queue |-> <<>>]

\* IdMutex.lock(id) called by task t: queued behind the holder, or holder
lock(mutex, id, t) ==
    IF mutex[id].locked
    THEN [mutex EXCEPT ![id].queue = Append(@, t)]
    ELSE [mutex EXCEPT ![id] = [locked |-> TRUE, queue |-> <<>>]]

\* a release that deletes the entry also when a caller takes the lock over
releaseDelete(mutex, id) ==
    IF mutex[id].queue # <<>>
    THEN [mutex EXCEPT ![id] = [locked |-> FALSE, queue |-> Tail(mutex[id].queue)]]
    ELSE [mutex EXCEPT ![id] = Unlocked]

\* a release that runs twice for one acquisition
releaseTwice(mutex, id) ==
    IF Len(mutex[id].queue) >= 2
    THEN [mutex EXCEPT ![id].queue = Tail(Tail(@))]
    ELSE [mutex EXCEPT ![id] = Unlocked]

\* a release that keeps the entry, locked, when no caller waits
releaseHeld(mutex, id) ==
    IF mutex[id].queue # <<>>
    THEN [mutex EXCEPT ![id].queue = Tail(@)]
    ELSE mutex

\* IdMutex.release(id): the lock passes to the longest-waiting caller, or
\* the entry is deleted
release(mutex, id) ==
    IF mutex[id].queue # <<>>
    THEN [mutex EXCEPT ![id].queue = Tail(@)]
    ELSE [mutex EXCEPT ![id] = Unlocked]

(* ------------------------- pure settlement code ------------------------ *)
liquidationPrice(entryPrice, position, fee, leverage) ==
    LET s == IF position = "LONG" THEN 0 - 1 ELSE 1
    IN  IF leverage > 1
        THEN MulDiv(MulDiv(entryPrice, leverage + s, leverage), 10000 + fee * s, 10000)
        ELSE IF position = "LONG"
             THEN MulFee(entryPrice, fee)
             ELSE MulDiv(entryPrice, 10000, fee)

\* margin of an order: lines 1214-1216
orderMargin(order, leverage) ==
    LET symbol == SymbolInfo(order.symbol)
    IN  IF isCoinm(symbol.exchange)
        THEN Div(Div(order.amount * symbol.quoteAsset.minAmount, order.price), leverage)
        ELSE Div(order.amount * order.price, leverage)

\* createPositionFromOrder(order, leverage, _margin, _fee, amount); the id
\* is given at insertion
createPositionFromOrder(order, leverage, margin, fee, amount) ==
    LET feePerc == getUserFee(IF order.type = "LIMIT" THEN "maker" ELSE "taker",
                              ExchangeOf(order.symbol))
        side == IF order.side = "BUY" THEN "LONG" ELSE "SHORT"
    IN  [id |-> 0, user |-> order.user, symbol |-> order.symbol,
         positionSide |-> side, positionAmt |-> amount,
         entryPrice |-> order.price, margin |-> margin,
         liquidationPrice |-> liquidationPrice(order.price, side, feePerc, leverage),
         leverage |-> leverage, status |-> "NEW", profit |-> 0 - fee,
         fee |-> fee, closePrice |-> 0]

\* realized profit of closing `amount` of `current` at `price`, less `fee`
closeProfit(current, amount, price, fee) ==
    LET symbol == SymbolInfo(current.symbol)
        dir == IF current.positionSide = "LONG" THEN 1 ELSE 0 - 1
    IN  IF isCoinm(symbol.exchange)
        THEN (Div(amount * symbol.quoteAsset.minAmount, current.entryPrice)
              - Div(amount * symbol.quoteAsset.minAmount, price)) * dir - fee
        ELSE (amount * price - amount * current.entryPrice) * dir - fee

\* The synchronous part of processFuturesPosition after the hedge read
\* (lines 1208-1384): what it decides for `order` against `current`, the
\* position object found in B (NoPosition when none).  The result names
\* the branch, the rewritten order (reduce-only trim), the mutated
\* `current`, the position to create, and the balance delta free/locked.
settleFutures(order, leverage, current) ==
    LET symbol == SymbolInfo(order.symbol)
        coinm == isCoinm(symbol.exchange)
        margin == orderMargin(order, leverage)
        feePerc == IF order.feePerc # 0 THEN order.feePerc
                   ELSE getUserFee(IF order.type = "LIMIT" THEN "maker" ELSE "taker",
                                   symbol.exchange)
        base == [branch |-> "open", order |-> order, current |-> current,
                 create |-> NoPosition, free |-> 0 - margin - order.fee,
                 locked |-> margin]
        long == current.positionSide = "LONG"
        diff == current.positionAmt - order.amount
    IN  IF current = NoPosition
        THEN [base EXCEPT !.create =
                 createPositionFromOrder(order, leverage, margin, order.fee, order.amount)]
        ELSE IF (order.side = "BUY" /\ current.positionSide = "LONG")
                \/ (order.side = "SELL" /\ current.positionSide = "SHORT")
        THEN LET entry == Div(current.entryPrice * current.positionAmt
                              + order.price * order.amount,
                              current.positionAmt + order.amount)
             IN  [base EXCEPT !.branch = "increase",
                    !.current = [current EXCEPT
                        !.margin = @ + margin,
                        !.entryPrice = entry,
                        !.positionAmt = @ + order.amount,
                        !.liquidationPrice =
                            liquidationPrice(entry, current.positionSide, feePerc, leverage),
                        !.fee = @ + order.fee,
                        !.profit = @ - order.fee]]
        ELSE IF diff = 0
                \/ (IF coinm THEN Abs(diff) < 1
                    ELSE Abs(diff) < symbol.baseAsset.minAmount)
        THEN LET profit == closeProfit(current, current.positionAmt, order.price, order.fee)
             IN  [base EXCEPT !.branch = "close",
                    !.current = [current EXCEPT
                        !.status = "CLOSED", !.profit = @ + profit,
                        !.fee = @ + order.fee, !.margin = 0,
                        !.closePrice = order.price],
                    !.locked = 0 - current.margin,
                    !.free = current.margin + profit]
        ELSE IF diff <= 0 /\ order.reduceOnly
        THEN LET fee == order.fee
                        - (IF coinm
                           THEN Div(Abs(diff) * symbol.quoteAsset.minAmount, order.price)
                           ELSE MulFee(Abs(diff), feePerc))
                 trimmed == [order EXCEPT
                        !.fee = fee,
                        !.amount = current.positionAmt,
                        !.filledAmount = current.positionAmt,
                        !.quoteAmount = current.positionAmt * order.price,
                        !.filledQuoteAmount = current.positionAmt * order.price]
                 profit == closeProfit(current, trimmed.amount, order.price, fee)
             IN  [base EXCEPT !.branch = "trim",
                    !.order = trimmed,
                    !.current = [current EXCEPT
                        !.status = "CLOSED", !.profit = @ + profit,
                        !.fee = @ + fee, !.margin = 0,
                        !.closePrice = order.price],
                    !.locked = 0 - current.margin,
                    !.free = current.margin + profit]
        ELSE IF diff <= 0
        THEN LET diffMargin ==
                    IF coinm
                    THEN Div(Div(current.positionAmt * symbol.quoteAsset.minAmount,
                                 current.entryPrice), leverage)
                    ELSE Div(current.positionAmt * current.entryPrice, leverage)
                 fee == MulFee(IF coinm
                               THEN Div(current.positionAmt * symbol.quoteAsset.minAmount,
                                        order.price)
                               ELSE current.positionAmt * order.price, feePerc)
                 profit == closeProfit(current, current.positionAmt, order.price, fee)
             IN  [base EXCEPT !.branch = "flip",
                    !.current = [current EXCEPT
                        !.status = "CLOSED", !.profit = @ + profit,
                        !.fee = @ + fee, !.margin = @ - diffMargin,
                        !.closePrice = order.price],
                    !.locked = (0 - diffMargin) + (margin - diffMargin),
                    !.free = diffMargin + profit + fee - order.fee - (margin - diffMargin),
                    !.create = createPositionFromOrder(order, leverage,
                                   margin - diffMargin, order.fee - fee,
                                   order.amount - current.positionAmt)]
        ELSE LET profit == closeProfit(current, order.amount, order.price, order.fee)
             IN  [base EXCEPT !.branch = "reduce",
                    !.current = [current EXCEPT
                        !.margin = @ - margin,
                        !.positionAmt = @ - order.amount,
                        !.profit = @ + profit,
                        !.fee = @ + order.fee],
                    !.locked = 0 - margin,
                    !.free = margin + profit]

(* ------------------------------ Init ----------------------------------- *)
\* every user starts with the same funds
InitFunds(asset) ==
    IF asset = "USDT" THEN 4000000 ELSE IF asset = "BTC" THEN 4000 ELSE 0

\* The state after onModuleInit on an empty order book: storage holds the
\* users' wallets and their one-way (BOTH) leverage rows, set to 2.
Init ==
    /\ userModel = Users
    /\ orderModel = [id \in OrderIds |-> NoOrder]
    /\ positionModel = [id \in PosIds |-> NoPosition]
    /\ walletModel = [k \in Users \X Assets |->
          [free |-> InitFunds(k[2]), locked |-> 0]]
    /\ leverageModel = [k \in Users \X Symbols \X Sides |->
          IF k[2] = FutSymbol /\ k[3] = "BOTH"
          THEN [leverage |-> 2, locked |-> FALSE, exists |-> TRUE]
          ELSE NoLeverage]
    /\ hedgeModel = [u \in Users |-> FALSE]
    /\ currentOrders = [id \in OrderIds |-> NoOrder]
    /\ positionObjects = [id \in PosIds |-> NoPosition]
    /\ currentPositions = {}
    /\ watchSymbols = [s \in Symbols |-> {}]
    /\ subscribed = {}
    /\ symbolsMap = {}
    /\ symbolPriceMap = [s \in Symbols |-> 0]
    /\ tickerSignatureMap = [s \in Symbols |-> <<>>]
    /\ msg = NoMsg
    /\ restarts = 0
    /\ CreateOrderMutex = [k \in Users \X Symbols |-> Unlocked]
    /\ UpdateOrderMutex = [id \in OrderIds |-> Unlocked]
    /\ commonMutex = [id \in PosIds |-> Unlocked]
    /\ leverageQueue = [k \in Users \X Symbols |-> <<>>]
    /\ tasks = [t \in TaskIds |-> IdleTask]
    /\ ready = <<>>

(* --------------------------- tasks and locks --------------------------- *)
\* The control state an operation's step works on: the tasks, the three
\* IdMutex instances and the microtask queue.
Ctl ==
    [tasks |-> tasks, create |-> CreateOrderMutex, update |-> UpdateOrderMutex,
     common |-> commonMutex, ready |-> ready]

SetCtl(c) ==
    /\ tasks' = c.tasks
    /\ CreateOrderMutex' = c.create
    /\ UpdateOrderMutex' = c.update
    /\ commonMutex' = c.common
    /\ ready' = c.ready

\* the IdMutex an operation is decorated with (@IdMute), and its id
LockOf(task) ==
    IF task.kind = "createOrder" THEN "create"
    ELSE IF task.kind \in {"cancel", "limit"} THEN "update"
    ELSE "common"

LockId(task) ==
    IF task.kind = "createOrder" THEN <<task.order.user, task.order.symbol>>
    ELSE IF task.kind \in {"cancel", "limit"} THEN task.order.externalId
    ELSE task.position

\* lock(id).then(() => fn.apply(this, args)): the body starts.  createOrder
\* and processCancelOrder start with a storage read; processLimitOrder and
\* closeFuturePosition start with synchronous checks, run as a microtask.
Granted(c, t) ==
    IF c.tasks[t].kind = "createOrder" THEN [c EXCEPT !.tasks[t].pc = "co_read"]
    ELSE IF c.tasks[t].kind = "cancel" THEN [c EXCEPT !.tasks[t].pc = "pc_find"]
    ELSE [c EXCEPT !.tasks[t].pc = "start", !.ready = Append(@, t)]

\* the decorated function is called: mutex.lock(id)
Acquire(c, t) ==
    LET m == LockOf(c.tasks[t])
        id == LockId(c.tasks[t])
    IN  IF c[m][id].locked
        THEN [c EXCEPT ![m] = lock(c[m], id, t), !.tasks[t].pc = "lock",
                       !.tasks[t].waited = (c.tasks[t].kind = "close")]
        ELSE Granted([c EXCEPT ![m] = lock(c[m], id, t)], t)

\* the decorated function has returned or thrown: mutex.release(id)
Release(c, t) ==
    LET m == LockOf(c.tasks[t])
        id == LockId(c.tasks[t])
    IN  IF c[m][id].queue # <<>>
        THEN Granted([c EXCEPT ![m] = release(c[m], id)], Head(c[m][id].queue))
        ELSE [c EXCEPT ![m] = release(c[m], id)]

\* closeFuturePosition, lines 1528-1550: the next reduce-only order to
\* expire, or the liquidation order built from the position object.  The
\* cancel of a user whose record is gone throws before it takes its lock
\* (lines 410-414) and the loop logs that (line 1534).
CloseNext(c, t) ==
    LET task == c.tasks[t]
        position == positionObjects[task.position]
        frame == [IdleTask EXCEPT !.caller = "close", !.position = task.position,
                                  !.liq = task.liq, !.waited = task.waited]
    IN  IF task.cancels # <<>> /\ position.user \in userModel
        THEN Acquire([c EXCEPT !.tasks[t] =
                 [frame EXCEPT !.kind = "cancel", !.cancels = Tail(task.cancels),
                     !.expired = TRUE,
                     !.order = [NoOrder EXCEPT !.externalId = Head(task.cancels),
                                               !.user = position.user]]], t)
        ELSE Acquire([c EXCEPT !.tasks[t] =
                 [frame EXCEPT !.kind = "createOrder",
                     !.order = [NoOrder EXCEPT
                         !.externalId = task.liq, !.user = position.user,
                         !.symbol = position.symbol,
                         !.side = IF position.positionSide = "LONG" THEN "SELL" ELSE "BUY",
                         !.type = "MARKET", !.price = position.liquidationPrice,
                         !.amount = position.positionAmt, !.reduceOnly = TRUE,
                         !.positionSide = position.positionSide]]], t)

\* The operation of task t returns or throws: IdMute releases its lock; an
\* operation called by closeFuturePosition resumes it.
Return(c, t) ==
    LET task == c.tasks[t]
        r == Release(c, t)
    IN  IF task.caller = "close" /\ task.kind = "cancel"
        THEN CloseNext(r, t)
        ELSE IF task.caller = "close" /\ task.kind = "createOrder"
        THEN LET d == [r EXCEPT !.tasks[t].kind = "close"]
             IN  [Release(d, t) EXCEPT !.tasks[t] = IdleTask]
        ELSE [r EXCEPT !.tasks[t] = IdleTask]

Idle == {t \in TaskIds : tasks[t].kind = "idle"}
FreeTask == CHOOSE t \in Idle : \A o \in Idle : t <= o
\* no microtask is pending: a request, a tick or an I/O completion may run
Macro == ready = <<>>
At(t, pc) == Macro /\ tasks[t].pc = pc

(* ------------------------------ createOrder ---------------------------- *)
\* the externalId of the next request: clients never reuse one
UsedIds ==
    {id \in OrderIds : orderModel[id].status # "NONE"}
    \cup {tasks[t].order.externalId : t \in {x \in TaskIds : tasks[x].kind = "createOrder"}}
    \cup {tasks[t].liq : t \in TaskIds}
FreshIds == ClientOrderIds \ UsedIds
NextId == CHOOSE id \in FreshIds : \A o \in FreshIds : id <= o

\* POST /order: OrderService.createOrder is called with the DTO
CreateOrderSided(user, symbol, side, type, price, amount, reduceOnly, positionSide, cap) ==
    /\ Macro
    /\ Idle # {}
    /\ FreshIds # {}
    /\ NextId <= cap
    /\ LET t == FreeTask
           dto == [NoOrder EXCEPT !.externalId = NextId, !.user = user,
                      !.symbol = symbol, !.side = side, !.type = type,
                      !.price = price, !.amount = amount,
                      !.reduceOnly = reduceOnly, !.positionSide = positionSide]
       IN  SetCtl(Acquire([Ctl EXCEPT !.tasks[t] =
               [IdleTask EXCEPT !.kind = "createOrder", !.order = dto]], t))
    /\ UNCHANGED <<storage, projection, watch, caches, leverageQueue>>

\* the DTO of a one-way client: positionSide BOTH
CreateOrderRequest(user, symbol, side, type, price, amount, reduceOnly, cap) ==
    CreateOrderSided(user, symbol, side, type, price, amount, reduceOnly, "BOTH", cap)

\* closeFuturePosition, lines 1551-1563: the catch of 'User not found'.
\* The position object is marked CLOSED and leaves B; the updateOne query
\* is built and neither awaited nor executed, so storage keeps the row
cfp_catch(p) ==
    /\ positionObjects' = [positionObjects EXCEPT ![p].status = "CLOSED"]
    /\ currentPositions' = currentPositions \ {p}

\* createOrder, lines 107-140: the user is read ('User not found' is thrown
\* when the record is gone), then the wallet rows and the leverage row; a
\* missing leverage row is created with leverage 1
co_read(t) ==
    /\ At(t, "co_read")
    /\ LET order == tasks[t].order
           symbol == SymbolInfo(order.symbol)
           futures == isFutures(symbol.exchange)
           key == <<order.user, order.symbol, order.positionSide>>
       IN  IF order.user \notin userModel
           THEN /\ SetCtl(Return(Ctl, t))
                /\ IF tasks[t].caller = "close"
                   THEN cfp_catch(tasks[t].position)
                   ELSE UNCHANGED <<positionObjects, currentPositions>>
                /\ UNCHANGED leverageModel
           ELSE /\ tasks' = [tasks EXCEPT
                      ![t].pc = "co_check",
                      ![t].baseFree = walletModel[<<order.user, symbol.baseAsset.name>>].free,
                      ![t].quoteFree = walletModel[<<order.user, symbol.quoteAsset.name>>].free,
                      ![t].leverage = IF futures /\ leverageModel[key].exists
                                      THEN leverageModel[key].leverage ELSE 1]
                /\ leverageModel' =
                      IF futures /\ ~leverageModel[key].exists
                      THEN [leverageModel EXCEPT ![key] =
                               [leverage |-> 1, locked |-> FALSE, exists |-> TRUE]]
                      ELSE leverageModel
                /\ UNCHANGED <<positionObjects, currentPositions, CreateOrderMutex,
                               UpdateOrderMutex, commonMutex, ready>>
    /\ UNCHANGED <<userModel, orderModel, positionModel, walletModel, hedgeModel,
                   currentOrders, watch, caches, leverageQueue>>

\* getPositionsBySymbols([symbol]).find(...): the first position of the user
\* in B, in insertion order; 0 when there is none
findPosition(user, symbol, hedge, positionSide) ==
    LET S == {p \in currentPositions :
                 /\ positionObjects[p].symbol = symbol
                 /\ positionObjects[p].user = user
                 /\ (hedge => positionObjects[p].positionSide = positionSide)}
    IN  IF S = {} THEN 0 ELSE CHOOSE p \in S : \A q \in S : p <= q

\* the type the client sent, whatever the price
orderTypeAsSent(order, currentPrice) ==
    order.type

\* createOrder, lines 151-158
orderType(order, currentPrice) ==
    IF order.type = "MARKET"
       \/ (order.side = "BUY" /\ order.price > currentPrice)
       \/ (order.side = "SELL" /\ order.price < currentPrice)
    THEN "MARKET" ELSE "LIMIT"

\* createOrder, lines 159-227 and 233-271: "" when the order is accepted,
\* else the message of the HttpException (400)
createOrderCheck(order, type, currentPrice, leverage, baseFree, quoteFree, hedge, find) ==
    LET symbol == SymbolInfo(order.symbol)
        coinm == isCoinm(symbol.exchange)
        usedPrice == IF type = "MARKET" THEN currentPrice ELSE order.price
        need == IF coinm
                THEN Div(Div(order.amount * symbol.quoteAsset.minAmount, usedPrice), leverage)
                ELSE Div(order.amount * usedPrice, leverage)
        free == IF coinm THEN baseFree ELSE quoteFree
        position == positionObjects[find]
        diff == IF coinm
                THEN Max(0, Div(Div((order.amount - position.positionAmt)
                                    * symbol.quoteAsset.minAmount, order.price), leverage))
                ELSE Max(0, Div((order.amount - position.positionAmt) * order.price,
                                leverage))
        notEnough ==
            IF find = 0 THEN free < need
            ELSE IF (position.positionSide = "LONG" /\ order.side = "BUY")
                    \/ (position.positionSide = "SHORT" /\ order.side = "SELL")
            THEN free < need
            ELSE IF ~order.reduceOnly THEN free < diff
            ELSE FALSE
    IN  IF isFutures(symbol.exchange)
        THEN IF hedge /\ order.positionSide = "BOTH"
             THEN "Position side must be specified in hedge mode"
             ELSE IF notEnough THEN "Not enough balance"
             ELSE IF find = 0 /\ order.reduceOnly THEN "Reduce order is rejected"
             ELSE ""
        ELSE IF order.side = "BUY" /\ quoteFree < order.amount * usedPrice
             THEN "Not enough balance"
             ELSE IF order.side = "SELL" /\ baseFree < order.amount
             THEN "Not enough balance"
             ELSE ""

\* processMarketOrder, lines 999-1057: the FILLED order it stores
marketOrder(order, currentPrice) ==
    LET symbol == SymbolInfo(order.symbol)
        quoteAssetAmount == order.amount * currentPrice
        baseAssetAmount == IF isCoinm(symbol.exchange)
                           THEN Div(order.amount * symbol.quoteAsset.minAmount, currentPrice)
                           ELSE order.amount
        feePerc == getUserFee("taker", symbol.exchange)
        fee == IF isFutures(symbol.exchange)
               THEN (IF isCoinm(symbol.exchange) THEN MulFee(baseAssetAmount, feePerc)
                     ELSE MulFee(quoteAssetAmount, feePerc))
               ELSE IF order.side = "SELL" THEN MulFee(quoteAssetAmount, feePerc)
               ELSE MulFee(order.amount, feePerc)
    IN  [order EXCEPT !.filledAmount = order.amount,
                      !.filledQuoteAmount = quoteAssetAmount,
                      !.quoteAmount = quoteAssetAmount,
                      !.price = currentPrice, !.fee = fee, !.feePerc = feePerc,
                      !.status = "FILLED", !.type = "MARKET"]

\* createLimitOrder, lines 1439-1459: the NEW order it stores
limitOrder(order) ==
    [order EXCEPT !.filledAmount = 0, !.filledQuoteAmount = 0,
                  !.quoteAmount = order.amount * order.price, !.fee = 0,
                  !.feePerc = getUserFee("maker", ExchangeOf(order.symbol)),
                  !.status = "NEW"]

\* createOrder, lines 147-273: the price is taken from symbolPriceMap or
\* fetched (any price of the market), the hedge mode is read, the position
\* is looked up in B and the order is rejected, or handed to
\* createLimitOrder or processMarketOrder, which send their insert
co_check(t, fetched) ==
    /\ At(t, "co_check")
    /\ LET task == tasks[t]
           order == task.order
           currentPrice == IF symbolPriceMap[order.symbol] # 0
                           THEN symbolPriceMap[order.symbol] ELSE fetched
           hedge == hedgeModel[order.user]
           find == findPosition(order.user, order.symbol, hedge, order.positionSide)
           type == orderType(order, currentPrice)
           error == createOrderCheck(order, type, currentPrice, task.leverage,
                                     task.baseFree, task.quoteFree, hedge, find)
       IN  /\ symbolPriceMap' = [symbolPriceMap EXCEPT ![order.symbol] = currentPrice]
           /\ IF error # ""
              THEN SetCtl(Return(Ctl, t))
              ELSE /\ tasks' = [tasks EXCEPT
                         ![t].pc = IF type = "LIMIT" THEN "cl_persist" ELSE "pm_persist",
                         ![t].order = IF type = "LIMIT"
                                      THEN limitOrder([order EXCEPT !.type = type])
                                      ELSE marketOrder(order, currentPrice)]
                   /\ UNCHANGED <<CreateOrderMutex, UpdateOrderMutex, commonMutex, ready>>
    /\ UNCHANGED <<storage, projection, watch, symbolsMap, tickerSignatureMap, msg, restarts,
                   leverageQueue>>

(* ------------------------- wallets and watch set ----------------------- *)
\* UserService.increaseUserBalance, one update: $inc without a lower bound
increaseUserBalance(wallets, user, asset, free, locked) ==
    [wallets EXCEPT ![<<user, asset>>] =
        [free |-> @.free + free, locked |-> @.locked + locked]]

Watch == [watchSymbols |-> watchSymbols, subscribed |-> subscribed]

SetWatch(w) ==
    /\ watchSymbols' = w.watchSymbols
    /\ subscribed' = w.subscribed

\* checkRedis(sym) followed by watchSymbols.set(sym, ... .add(holder))
WatchAdd(w, sym, holder) ==
    [watchSymbols |-> [w.watchSymbols EXCEPT ![sym] = @ \cup {holder}],
     subscribed |-> IF w.watchSymbols[sym] = {} THEN w.subscribed \cup {sym}
                    ELSE w.subscribed]

\* a removal that deletes the entry of the symbol with all its holders
WatchDeleteEntry(w, sym, holder) ==
    [watchSymbols |-> [w.watchSymbols EXCEPT ![sym] = {}],
     subscribed |-> w.subscribed \ {sym}]

\* a removal that unsubscribes without looking at the size of the entry
WatchDeleteUnsubscribe(w, sym, holder) ==
    [watchSymbols |-> [w.watchSymbols EXCEPT ![sym] = @ \ {holder}],
     subscribed |-> w.subscribed \ {sym}]

\* the holder is deleted; an entry left empty is deleted and its channel
\* unsubscribed (lines 709-713, 1285-1289, 1750-1754)
WatchDelete(w, sym, holder) ==
    [watchSymbols |-> [w.watchSymbols EXCEPT ![sym] = @ \ {holder}],
     subscribed |-> IF w.watchSymbols[sym] \ {holder} = {} THEN w.subscribed \ {sym}
                    ELSE w.subscribed]

(* ---------------------------- createLimitOrder ------------------------- *)
\* the B record of an order document: every field but feePerc
mapOrderDocumentToDataType(p) == [p EXCEPT !.feePerc = 0]

\* pushPosition(orderInDb), checkRedis and the watch-set add, lines 1478-1485
cl_insert(t) ==
    LET order == tasks[t].order
    IN  /\ currentOrders' = [currentOrders EXCEPT ![order.externalId] =
                                 mapOrderDocumentToDataType(order)]
        /\ SetWatch(WatchAdd(Watch, order.symbol, OrderHolder(order.externalId)))
        /\ SetCtl(Return(Ctl, t))

\* orderModel.create has stored the NEW order.  A spot order sends its
\* reservation; a futures order reserves nothing and is inserted at once.
cl_persist(t) ==
    /\ At(t, "cl_persist")
    /\ LET order == tasks[t].order
       IN  /\ orderModel' = [orderModel EXCEPT ![order.externalId] = order]
           /\ IF ~isFutures(ExchangeOf(order.symbol))
              THEN /\ tasks' = [tasks EXCEPT ![t].pc = "cl_balance"]
                   /\ UNCHANGED <<currentOrders, watch, CreateOrderMutex,
                                  UpdateOrderMutex, commonMutex, ready>>
              ELSE cl_insert(t)
    /\ UNCHANGED <<userModel, positionModel, walletModel, leverageModel, hedgeModel,
                   positionObjects, currentPositions, caches, leverageQueue>>

\* updateBalance has moved the reservation from free to locked; the order
\* document returned by create is inserted into B and watched
cl_balance(t) ==
    /\ At(t, "cl_balance")
    /\ LET order == tasks[t].order
           symbol == SymbolInfo(order.symbol)
       IN  walletModel' =
              IF order.side = "SELL"
              THEN increaseUserBalance(walletModel, order.user, symbol.baseAsset.name,
                                       0 - order.amount, order.amount)
              ELSE increaseUserBalance(walletModel, order.user, symbol.quoteAsset.name,
                                       0 - order.quoteAmount, order.quoteAmount)
    /\ cl_insert(t)
    /\ UNCHANGED <<userModel, orderModel, positionModel, leverageModel, hedgeModel,
                   positionObjects, currentPositions, caches, leverageQueue>>

(* ---------------------------- processMarketOrder ----------------------- *)
\* orderModel.create has stored the FILLED order: a futures order goes to
\* processFuturesPosition, a spot order sends its balance update
pm_persist(t) ==
    /\ At(t, "pm_persist")
    /\ LET order == tasks[t].order
       IN  /\ orderModel' = [orderModel EXCEPT ![order.externalId] = order]
           /\ tasks' = [tasks EXCEPT ![t].pc =
                 IF isFutures(ExchangeOf(order.symbol)) THEN "pfp_hedge"
                 ELSE "pm_balance"]
    /\ UNCHANGED <<userModel, positionModel, walletModel, leverageModel, hedgeModel, projection,
                   watch, caches, CreateOrderMutex, UpdateOrderMutex, commonMutex,
                   leverageQueue, ready>>

\* the spot settlement, lines 1062-1090
pm_balance(t) ==
    /\ At(t, "pm_balance")
    /\ LET order == tasks[t].order
           symbol == SymbolInfo(order.symbol)
           base == symbol.baseAsset.name
           quote == symbol.quoteAsset.name
       IN  walletModel' =
              IF order.side = "SELL"
              THEN increaseUserBalance(
                       increaseUserBalance(walletModel, order.user, quote,
                                           order.quoteAmount - order.fee, 0),
                       order.user, base, 0 - order.amount, 0)
              ELSE increaseUserBalance(
                       increaseUserBalance(walletModel, order.user, base,
                                           order.amount - order.fee, 0),
                       order.user, quote, 0 - order.quoteAmount, 0)
    /\ SetCtl(Return(Ctl, t))
    /\ UNCHANGED <<userModel, orderModel, positionModel, leverageModel, hedgeModel, projection,
                   watch, caches, leverageQueue>>

(* ------------------------------ cancel --------------------------------- *)
\* DELETE /order: cancelOrderByKeySecretExternalIdAndSymbol calls
\* processCancelOrder for one of the caller's orders that storage shows open
\* DELETE /order: cancelOrderByKeySecretExternalIdAndSymbol reads the user
\* ('User not found' is a 400 that changes nothing) and calls
\* processCancelOrder with the externalId the client sent
CancelOrderRequest(user, id) ==
    /\ Macro
    /\ Idle # {}
    /\ user \in userModel
    /\ LET t == FreeTask
       IN  SetCtl(Acquire([Ctl EXCEPT !.tasks[t] =
               [IdleTask EXCEPT !.kind = "cancel",
                   !.order = [NoOrder EXCEPT !.externalId = id, !.user = user]]], t))
    /\ UNCHANGED <<storage, projection, watch, caches, leverageQueue>>

\* the cancel of an order that is open in storage, sent by its owner
CancelRequest(id) ==
    /\ orderModel[id].status \in {"NEW", "PARTIALLY_FILLED"}
    /\ CancelOrderRequest(orderModel[id].user, id)

\* a refusal of the orders that are not found only
unknownOrderMissing(order, user) ==
    order.status = "NONE" \/ order.user # user

\* processCancelOrder, lines 646-654: the order is not found for the user,
\* or its status is FILLED, CANCELED or EXPIRED
unknownOrder(order, user) ==
    \/ order.status = "NONE" \/ order.user # user
    \/ order.status \in Terminal

\* processCancelOrder, lines 646-661: the order is read; an unknown or
\* terminal order is refused (400), else the status update is sent
pc_find(t) ==
    /\ At(t, "pc_find")
    /\ LET task == tasks[t]
           order == orderModel[task.order.externalId]
       IN  IF unknownOrder(order, task.order.user)
           THEN SetCtl(Return(Ctl, t))
           ELSE /\ tasks' = [tasks EXCEPT ![t].pc = "pc_status",
                      ![t].order = [order EXCEPT !.status =
                          IF task.expired THEN "EXPIRED" ELSE "CANCELED"]]
                /\ UNCHANGED <<CreateOrderMutex, UpdateOrderMutex, commonMutex, ready>>
    /\ UNCHANGED <<storage, projection, watch, caches, leverageQueue>>

\* processCancelOrder, lines 704-717
pc_finish(t) ==
    LET order == tasks[t].order
    IN  /\ SetWatch(WatchDelete(Watch, order.symbol, OrderHolder(order.externalId)))
        /\ currentOrders' = [currentOrders EXCEPT ![order.externalId] = NoOrder]
        /\ SetCtl(Return(Ctl, t))

\* a release of the whole reservation, whatever has been filled
cancelAmountWhole(order) ==
    IF isFutures(ExchangeOf(order.symbol)) THEN 0
    ELSE IF order.side = "BUY" THEN order.quoteAmount
    ELSE order.amount

\* the residual reservation a cancel releases, lines 689-695
cancelAmount(order) ==
    IF isFutures(ExchangeOf(order.symbol)) THEN 0
    ELSE IF order.side = "BUY" THEN order.quoteAmount - order.filledQuoteAmount
    ELSE order.amount - order.filledAmount

\* the status update is stored; a LIMIT order with a residual reservation
\* sends its release (the symbol comes from the cache or is fetched)
pc_status(t) ==
    /\ At(t, "pc_status")
    /\ LET order == tasks[t].order
       IN  /\ orderModel' = [orderModel EXCEPT ![order.externalId].status = order.status]
           /\ symbolsMap' = IF order.type = "LIMIT" THEN symbolsMap \cup {order.symbol}
                            ELSE symbolsMap
           /\ IF order.type = "LIMIT" /\ cancelAmount(order) # 0
              THEN /\ tasks' = [tasks EXCEPT ![t].pc = "pc_balance"]
                   /\ UNCHANGED <<currentOrders, watch, CreateOrderMutex,
                                  UpdateOrderMutex, commonMutex, ready>>
              ELSE pc_finish(t)
    /\ UNCHANGED <<userModel, positionModel, walletModel, leverageModel, hedgeModel,
                   positionObjects, currentPositions, symbolPriceMap,
                   tickerSignatureMap, msg, restarts, leverageQueue>>

\* the release is stored: the order leaves the watch set and B
pc_balance(t) ==
    /\ At(t, "pc_balance")
    /\ LET order == tasks[t].order
           symbol == SymbolInfo(order.symbol)
       IN  walletModel' = increaseUserBalance(walletModel, order.user,
               IF order.side = "BUY" THEN symbol.quoteAsset.name
               ELSE symbol.baseAsset.name,
               cancelAmount(order), 0 - cancelAmount(order))
    /\ pc_finish(t)
    /\ UNCHANGED <<userModel, orderModel, positionModel, leverageModel, hedgeModel,
                   positionObjects, currentPositions, caches, leverageQueue>>

(* ------------------------------- ticks --------------------------------- *)
\* the elements of S, a set of ids, in the order of key and then of id
\* (Array.sort is stable and B iterates in insertion order)
SortedBy(S, key) ==
    [i \in 1..Cardinality(S) |->
        CHOOSE x \in S :
            Cardinality({y \in S : key[y] < key[x] \/ (key[y] = key[x] /\ y < x)}) = i - 1]

RECURSIVE SpawnAll(_, _)
\* the calls of processTickerQueue, in order: each takes a free task slot
\* and calls its decorated function
SpawnAll(c, calls) ==
    IF calls = <<>> THEN c
    ELSE LET free == {t \in TaskIds : c.tasks[t].kind = "idle"}
             t == CHOOSE x \in free : \A o \in free : x <= o
         IN  SpawnAll(Acquire([c EXCEPT !.tasks[t] = Head(calls)], t), Tail(calls))

\* a scan that calls processLimitOrder for every live order of the symbol,
\* whatever the prices and sizes of the tick
tickCallsUnfiltered(symbol, data) ==
    LET live == {id \in OrderIds : currentOrders[id].symbol = symbol
                                   /\ currentOrders[id].status \in {"NEW", "PARTIALLY_FILLED"}
                                   /\ currentOrders[id].type = "LIMIT"}
        orders == SortedBy(live, [id \in OrderIds |-> currentOrders[id].price])
    IN  [i \in 1..Len(orders) |->
            [IdleTask EXCEPT !.kind = "limit", !.order = currentOrders[orders[i]],
                             !.data = data]]

\* processTickerQueue, lines 1786-1846: the positions to liquidate and the
\* limit orders to fill at this tick, in the order they are called
tickCalls(symbol, data) ==
    LET futures == isFutures(ExchangeOf(symbol))
        open == {p \in currentPositions : positionObjects[p].symbol = symbol
                                          /\ positionObjects[p].status = "NEW"}
        longPositions == {p \in open : positionObjects[p].positionSide = "LONG"
                             /\ positionObjects[p].liquidationPrice >= data.bestBid}
        shortPositions == {p \in open : positionObjects[p].positionSide = "SHORT"
                             /\ positionObjects[p].liquidationPrice <= data.bestAsk}
        live == {id \in OrderIds : currentOrders[id].symbol = symbol
                                   /\ currentOrders[id].status \in {"NEW", "PARTIALLY_FILLED"}
                                   /\ currentOrders[id].type = "LIMIT"}
        sellPositions == {id \in live : currentOrders[id].side = "SELL"
                             /\ currentOrders[id].price <= data.bestBid
                             /\ (futures \/ data.bidQty > 0)}
        buyPositions == {id \in live : currentOrders[id].side = "BUY"
                             /\ currentOrders[id].price >= data.bestAsk
                             /\ (futures \/ data.askQty > 0)}
        liqAsc == [p \in PosIds |-> positionObjects[p].liquidationPrice]
        liqDesc == [p \in PosIds |-> 0 - positionObjects[p].liquidationPrice]
        priceAsc == [id \in OrderIds |-> currentOrders[id].price]
        priceDesc == [id \in OrderIds |-> 0 - currentOrders[id].price]
        positions == SortedBy(longPositions, liqAsc) \o SortedBy(shortPositions, liqDesc)
        orders == SortedBy(sellPositions, priceAsc) \o SortedBy(buyPositions, priceDesc)
        liqIds == SortedBy(LiqOrderIds \ UsedIds, [id \in OrderIds |-> 0])
    IN  [i \in 1..Len(positions) |->
            [IdleTask EXCEPT !.kind = "close", !.position = positions[i],
                             !.liq = IF i <= Len(liqIds) THEN liqIds[i] ELSE 0]]
        \o [i \in 1..Len(orders) |->
            [IdleTask EXCEPT !.kind = "limit", !.order = currentOrders[orders[i]],
                             !.data = data]]

\* the decimal digits of a number, as a template literal prints it
RECURSIVE Digits(_)
Digits(n) ==
    IF n < 10 THEN <<n>> ELSE Append(Digits(n \div 10), n % 10)

\* processTickers, line 1877: the fields printed one after the other
signature(t) ==
    Digits(t.bestAsk) \o Digits(t.bestBid) \o Digits(t.askQty) \o Digits(t.bidQty)
        \o Digits(t.price)

\* a filter that lets every signature through
isDuplicateNever(symbol, data) ==
    FALSE

\* processTickers, lines 1877-1880: the signature is the last one recorded
\* for the symbol
isDuplicate(symbol, data) ==
    tickerSignatureMap[symbol] = signature(data)

\* redisCb -> processTickers -> processTickerQueue for one ticker of a
\* subscribed channel, fresh and in order: a repeated signature is dropped,
\* the price is recorded, and closeFuturePosition and processLimitOrder are
\* called without being awaited
Tick(symbol, data) ==
    /\ Macro
    /\ symbol \in subscribed
    /\ watchSymbols[symbol] # {}
    /\ ~isDuplicate(symbol, data)
    /\ LET calls == tickCalls(symbol, data)
       IN  /\ Len(calls) <= Cardinality(Idle)
           /\ \A i \in 1..Len(calls) : calls[i].kind = "close" => calls[i].liq # 0
           /\ SetCtl(SpawnAll(Ctl, calls))
    /\ tickerSignatureMap' = [tickerSignatureMap EXCEPT ![symbol] = signature(data)]
    /\ msg' = [symbol |-> symbol, data |-> data, late |-> FALSE]
    /\ symbolPriceMap' = [symbolPriceMap EXCEPT ![symbol] = data.price]
    /\ UNCHANGED <<storage, projection, watch, symbolsMap, restarts, leverageQueue>>

\* redisCb -> processTickers for any ticker of a subscribed channel that is
\* in order.  One older than newDataLimit (`late`) deletes the cached price
\* and is dropped (lines 1868-1875); a fresh one with the last signature is
\* dropped (lines 1878-1880); any other goes on as Tick
processTickers(symbol, data, late) ==
    IF ~late /\ ~isDuplicate(symbol, data)
    THEN Tick(symbol, data)
    ELSE /\ Macro
         /\ symbol \in subscribed
         /\ watchSymbols[symbol] # {}
         /\ msg' = [symbol |-> symbol, data |-> data, late |-> late]
         /\ symbolPriceMap' = IF late THEN [symbolPriceMap EXCEPT ![symbol] = 0]
                              ELSE symbolPriceMap
         /\ UNCHANGED <<storage, projection, watch, symbolsMap, tickerSignatureMap,
                        restarts, CreateOrderMutex, UpdateOrderMutex, commonMutex,
                        leverageQueue, tasks, ready>>

(* --------------------------- processLimitOrder ------------------------- *)
\* processLimitOrder, lines 1604-1747: the fill of `order`, the record the
\* tick scan selected, against the tick
fillOrder(order, data) ==
    LET symbol == SymbolInfo(order.symbol)
        futures == isFutures(symbol.exchange)
        coinm == isCoinm(symbol.exchange)
        feePerc == IF order.feePerc # 0 THEN order.feePerc
                   ELSE getUserFee("maker", symbol.exchange)
        sell == order.side = "SELL" /\ order.price <= data.bestBid
                /\ (futures \/ data.bidQty > 0)
        buy == order.side = "BUY" /\ order.price >= data.bestAsk
               /\ (futures \/ data.askQty > 0)
        qty == IF sell THEN data.bidQty ELSE data.askQty
        better == IF sell THEN order.price < data.bestBid ELSE order.price > data.bestAsk
        remaining == order.amount - order.filledAmount
        isFilled == futures \/ better \/ remaining <= qty
        baseAssetAmount == IF isFilled THEN remaining ELSE qty
        quoteAssetAmount == baseAssetAmount * order.price
        fee == IF coinm
               THEN MulFee(Div(baseAssetAmount * symbol.quoteAsset.minAmount, order.price),
                           feePerc)
               ELSE IF sell \/ futures THEN MulFee(quoteAssetAmount, feePerc)
               ELSE MulFee(baseAssetAmount, feePerc)
    IN  IF sell \/ buy
        THEN [matched |-> TRUE, isFilled |-> isFilled,
              fill |-> <<baseAssetAmount, quoteAssetAmount, fee>>,
              order |-> [order EXCEPT
                  !.status = IF isFilled THEN "FILLED" ELSE "PARTIALLY_FILLED",
                  !.filledAmount = @ + baseAssetAmount,
                  !.filledQuoteAmount = @ + quoteAssetAmount,
                  !.fee = @ + fee, !.feePerc = feePerc]]
        ELSE [matched |-> FALSE, isFilled |-> FALSE, fill |-> <<0, 0, 0>>,
              order |-> order]

\* the symbol record is at hand: the fill is computed, the queries are
\* sent and the new record replaces the order in B (setOrder)
plo_fill(c, t) ==
    LET task == c.tasks[t]
        f == fillOrder(task.order, task.data)
    IN  /\ currentOrders' = IF f.matched
                            THEN [currentOrders EXCEPT ![f.order.externalId] = f.order]
                            ELSE currentOrders
        /\ SetCtl([c EXCEPT !.tasks[t] =
               [task EXCEPT !.pc = "plo_queries", !.order = f.order,
                            !.isFilled = f.isFilled, !.fill = f.fill]])

\* getExchangeInfo has answered a miss of the symbol cache
plo_info(t) ==
    /\ At(t, "plo_info")
    /\ symbolsMap' = symbolsMap \cup {tasks[t].order.symbol}
    /\ plo_fill(Ctl, t)
    /\ UNCHANGED <<storage, positionObjects, currentPositions, watch, symbolPriceMap,
                   tickerSignatureMap, msg, restarts, leverageQueue>>

\* Promise.all(queries): the $inc of the order and, for spot, of the wallets
\* are stored.  A filled order leaves the watch set and B; a futures order
\* goes on to processFuturesPosition.
plo_queries(t) ==
    /\ At(t, "plo_queries")
    /\ LET task == tasks[t]
           order == task.order
           symbol == SymbolInfo(order.symbol)
           futures == isFutures(symbol.exchange)
           base == symbol.baseAsset.name
           quote == symbol.quoteAsset.name
       IN  /\ orderModel' = [orderModel EXCEPT ![order.externalId] =
                 [@ EXCEPT !.filledAmount = @ + task.fill[1],
                           !.filledQuoteAmount = @ + task.fill[2],
                           !.fee = @ + task.fill[3],
                           !.status = order.status]]
           /\ walletModel' =
                 IF futures THEN walletModel
                 ELSE IF order.side = "SELL"
                 THEN increaseUserBalance(
                          increaseUserBalance(walletModel, order.user, quote,
                                              task.fill[2] - task.fill[3], 0),
                          order.user, base, 0, 0 - task.fill[1])
                 ELSE increaseUserBalance(
                          increaseUserBalance(walletModel, order.user, base,
                                              task.fill[1] - task.fill[3], 0),
                          order.user, quote, 0, 0 - task.fill[2])
           /\ IF task.isFilled
              THEN /\ SetWatch(WatchDelete(Watch, order.symbol,
                                           OrderHolder(order.externalId)))
                   /\ currentOrders' = [currentOrders EXCEPT ![order.externalId] = NoOrder]
                   /\ IF futures
                      THEN /\ tasks' = [tasks EXCEPT ![t].pc = "pfp_hedge"]
                           /\ UNCHANGED <<CreateOrderMutex, UpdateOrderMutex,
                                          commonMutex, ready>>
                      ELSE SetCtl(Return(Ctl, t))
              ELSE /\ SetCtl(Return(Ctl, t))
                   /\ UNCHANGED <<currentOrders, watch>>
    /\ UNCHANGED <<userModel, positionModel, leverageModel, hedgeModel, positionObjects,
                   currentPositions, caches, leverageQueue>>

(* -------------------------- closeFuturePosition ------------------------ *)
SetToSeq(S) == SortedBy(S, [id \in OrderIds |-> 0])

\* lines 1515-1526: the user is read, then the open reduce-only orders of
\* the user on the symbol; they are expired one by one, then the position is
\* closed by a reduce-only MARKET order.  'User not found' goes to the catch
cfp_find(t) ==
    /\ At(t, "cfp_find")
    /\ LET position == positionObjects[tasks[t].position]
           allSymbolReduceOrders ==
               {id \in OrderIds : /\ orderModel[id].status \notin Terminal \cup {"NONE"}
                                  /\ orderModel[id].symbol = position.symbol
                                  /\ orderModel[id].reduceOnly
                                  /\ orderModel[id].user = position.user}
       IN  /\ symbolsMap' = symbolsMap \cup {position.symbol}
           /\ IF position.user \notin userModel
              THEN /\ cfp_catch(tasks[t].position)
                   /\ SetCtl([Release(Ctl, t) EXCEPT !.tasks[t] = IdleTask])
              ELSE /\ SetCtl(CloseNext([Ctl EXCEPT !.tasks[t].cancels =
                                           SetToSeq(allSymbolReduceOrders)], t))
                   /\ UNCHANGED <<positionObjects, currentPositions>>
    /\ UNCHANGED <<storage, currentOrders, watch, symbolPriceMap, tickerSignatureMap, msg, restarts,
                   leverageQueue>>

\* the user's record is deleted from the users collection, which this
\* service only reads
DeleteUser(user) ==
    /\ Macro
    /\ user \in userModel
    /\ userModel' = userModel \ {user}
    /\ UNCHANGED <<orderModel, positionModel, walletModel, leverageModel, hedgeModel,
                   projection, watch, caches, CreateOrderMutex, UpdateOrderMutex,
                   commonMutex, leverageQueue, tasks, ready>>

(* ------------------------------ microtasks ----------------------------- *)
\* The first segment of a fire-and-forget call, run when its lock is
\* granted.  processLimitOrder (lines 1568-1603) drops an order that has
\* left B or is terminal there, then fills at once on a cache hit;
\* closeFuturePosition (lines 1497-1513) drops a position no longer NEW.
RunMicrotask ==
    /\ ready # <<>>
    /\ LET t == Head(ready)
           task == tasks[t]
           c == [Ctl EXCEPT !.ready = Tail(@)]
           inCurrent == currentOrders[task.order.externalId]
       IN  IF task.kind = "limit"
           THEN IF inCurrent.status \in Terminal \cup {"NONE"}
                THEN SetCtl(Return(c, t)) /\ UNCHANGED currentOrders
                ELSE IF task.order.symbol \in symbolsMap
                THEN plo_fill(c, t)
                ELSE SetCtl([c EXCEPT !.tasks[t].pc = "plo_info"])
                     /\ UNCHANGED currentOrders
           ELSE /\ IF positionObjects[task.position].status # "NEW"
                   THEN SetCtl(Return(c, t))
                   ELSE SetCtl([c EXCEPT !.tasks[t].pc = "cfp_find"])
                /\ UNCHANGED currentOrders
    /\ UNCHANGED <<storage, positionObjects, currentPositions, watch, caches,
                   leverageQueue>>

(* ------------------------ processFuturesPosition ----------------------- *)
\* lockLeverage / unLockLeverage is called and not awaited
leverageCall(queue, order, locked) ==
    [queue EXCEPT ![<<order.user, order.symbol>>] =
        Append(@, [side |-> order.positionSide, locked |-> locked])]

\* lines 1201-1384 up to the first write: the hedge mode is read (after the
\* leverage row, for a filled limit order: lines 1761-1766), the position
\* is looked up in B and the branch taken mutates it in place
pfp_hedge(t) ==
    /\ At(t, "pfp_hedge")
    /\ LET task == tasks[t]
           order == task.order
           key == <<order.user, order.symbol, order.positionSide>>
           leverage == IF task.kind = "limit"
                       THEN (IF leverageModel[key].exists
                             THEN leverageModel[key].leverage ELSE 1)
                       ELSE task.leverage
           find == findPosition(order.user, order.symbol, hedgeModel[order.user],
                                order.positionSide)
           r == settleFutures(order, leverage,
                              IF find = 0 THEN NoPosition ELSE positionObjects[find])
           next == [task EXCEPT !.leverage = leverage, !.branch = r.branch,
                                !.current = find, !.order = r.order,
                                !.create = r.create, !.update = r.current,
                                !.free = r.free, !.locked = r.locked]
       IN  /\ positionObjects' = IF find = 0 THEN positionObjects
                                 ELSE [positionObjects EXCEPT ![find] = r.current]
           /\ tasks' = [tasks EXCEPT ![t] = [next EXCEPT !.pc =
                 IF r.branch \in {"open", "flip"} THEN "pfp_create"
                 ELSE IF r.branch = "trim" THEN "pfp_trimOrder"
                 ELSE "pfp_update"]]
           /\ IF r.branch = "close"
              THEN /\ leverageQueue' = leverageCall(leverageQueue, order, FALSE)
                   /\ SetWatch(WatchDelete(Watch, order.symbol, PositionHolder(find)))
                   /\ currentPositions' = currentPositions \ {find}
              ELSE UNCHANGED <<leverageQueue, watch, currentPositions>>
    /\ UNCHANGED <<storage, currentOrders, caches, CreateOrderMutex, UpdateOrderMutex,
                   commonMutex, ready>>

UnusedPosIds == {p \in PosIds : positionModel[p].status = "NONE"}

\* positionModel.create has stored the new position: it enters B and the
\* watch set (addPositionToWatchList).  An opening order locks the leverage
\* row; a flip removes the closed position from B and sends its update.
pfp_create(t) ==
    /\ At(t, "pfp_create")
    /\ LET task == tasks[t]
           order == task.order
           id == CHOOSE p \in UnusedPosIds : \A q \in UnusedPosIds : p <= q
           position == [task.create EXCEPT !.id = id]
       IN  /\ positionModel' = [positionModel EXCEPT ![id] = position]
           /\ positionObjects' = [positionObjects EXCEPT ![id] = position]
           /\ SetWatch(WatchAdd(Watch, order.symbol, PositionHolder(id)))
           /\ IF task.branch = "open"
              THEN /\ currentPositions' = currentPositions \cup {id}
                   /\ leverageQueue' = leverageCall(leverageQueue, order, TRUE)
                   /\ tasks' = [tasks EXCEPT ![t].pc = "pfp_balance"]
              ELSE /\ currentPositions' = (currentPositions \cup {id}) \ {task.current}
                   /\ UNCHANGED leverageQueue
                   /\ tasks' = [tasks EXCEPT ![t].pc = "pfp_update",
                                             ![t].update = positionObjects[task.current]]
    /\ UNCHANGED <<userModel, orderModel, walletModel, leverageModel, hedgeModel, currentOrders,
                   caches, CreateOrderMutex, UpdateOrderMutex, commonMutex, ready>>

\* the trimmed reduce-only order is stored (lines 1317-1321): the leverage
\* row is unlocked, the closed position leaves B and its update is sent
pfp_trimOrder(t) ==
    /\ At(t, "pfp_trimOrder")
    /\ LET task == tasks[t]
       IN  /\ orderModel' = [orderModel EXCEPT ![task.order.externalId] = task.order]
           /\ leverageQueue' = leverageCall(leverageQueue, task.order, FALSE)
           /\ currentPositions' =
                 IF positionObjects[task.current].status = "CLOSED"
                 THEN currentPositions \ {task.current}
                 ELSE currentPositions \cup {task.current}
           /\ tasks' = [tasks EXCEPT ![t].pc = "pfp_update",
                                     ![t].update = positionObjects[task.current]]
    /\ UNCHANGED <<userModel, positionModel, walletModel, leverageModel, hedgeModel,
                   currentOrders, positionObjects, watch, caches, CreateOrderMutex,
                   UpdateOrderMutex, commonMutex, ready>>

\* positionModel.findOneAndUpdate({uuid}, {...current}) is stored
pfp_update(t) ==
    /\ At(t, "pfp_update")
    /\ positionModel' = [positionModel EXCEPT ![tasks[t].current] = tasks[t].update]
    /\ tasks' = [tasks EXCEPT ![t].pc = "pfp_balance"]
    /\ UNCHANGED <<userModel, orderModel, walletModel, leverageModel, hedgeModel, projection,
                   watch, caches, CreateOrderMutex, UpdateOrderMutex, commonMutex,
                   leverageQueue, ready>>

\* updateBalance(order.user, {asset, free, locked}) is stored, line 1393;
\* processMarketOrder or processLimitOrder returns
pfp_balance(t) ==
    /\ At(t, "pfp_balance")
    /\ LET task == tasks[t]
           symbol == SymbolInfo(task.order.symbol)
       IN  walletModel' = increaseUserBalance(walletModel, task.order.user,
               IF isCoinm(symbol.exchange) THEN symbol.baseAsset.name
               ELSE symbol.quoteAsset.name,
               task.free, task.locked)
    /\ SetCtl(Return(Ctl, t))
    /\ UNCHANGED <<userModel, orderModel, positionModel, leverageModel, hedgeModel, projection,
                   watch, caches, leverageQueue>>

\* lockLeverage / unLockLeverage, lines 1149-1177: the calls on one
\* (user, symbol) run one at a time, in call order; updateOne changes the
\* row of the given side if it exists
LeverageApply(user, symbol) ==
    /\ Macro
    /\ leverageQueue[<<user, symbol>>] # <<>>
    /\ LET call == Head(leverageQueue[<<user, symbol>>])
           key == <<user, symbol, call.side>>
       IN  leverageModel' = IF leverageModel[key].exists
                            THEN [leverageModel EXCEPT ![key].locked = call.locked]
                            ELSE leverageModel
    /\ leverageQueue' = [leverageQueue EXCEPT ![<<user, symbol>>] = Tail(@)]
    /\ UNCHANGED <<userModel, orderModel, positionModel, walletModel, hedgeModel, projection,
                   watch, caches, CreateOrderMutex, UpdateOrderMutex, commonMutex,
                   tasks, ready>>

(* ------------------------------ changeHedge ---------------------------- *)
\* POST /user/hedge: UserService.changeHedge is called; it takes no lock
ChangeHedgeRequest(user, hedge) ==
    /\ Macro
    /\ Idle # {}
    /\ user \in userModel
    /\ tasks' = [tasks EXCEPT ![FreeTask] =
          [IdleTask EXCEPT !.kind = "changeHedge", !.pc = "chh_find",
                           !.hedge = hedge,
                           !.order = [NoOrder EXCEPT !.user = user]]]
    /\ UNCHANGED <<storage, projection, watch, caches, CreateOrderMutex,
                   UpdateOrderMutex, commonMutex, leverageQueue, ready>>

\* positionModel.find has answered: with a stored NEW position of the user
\* the change is refused (400), else the upsert is sent
chh_find(t) ==
    /\ At(t, "chh_find")
    /\ LET user == tasks[t].order.user
           current == {p \in PosIds : positionModel[p].user = user
                                      /\ positionModel[p].status = "NEW"}
       IN  tasks' = [tasks EXCEPT ![t] =
              IF current # {} THEN IdleTask ELSE [@ EXCEPT !.pc = "chh_update"]]
    /\ UNCHANGED <<storage, projection, watch, caches, CreateOrderMutex,
                   UpdateOrderMutex, commonMutex, leverageQueue, ready>>

\* findOneAndUpdate({user}, {hedge, user}, {upsert: true}) is stored
chh_update(t) ==
    /\ At(t, "chh_update")
    /\ hedgeModel' = [hedgeModel EXCEPT ![tasks[t].order.user] = tasks[t].hedge]
    /\ tasks' = [tasks EXCEPT ![t] = IdleTask]
    /\ UNCHANGED <<userModel, orderModel, positionModel, walletModel, leverageModel,
                   projection, watch, caches, CreateOrderMutex, UpdateOrderMutex,
                   commonMutex, leverageQueue, ready>>

(* ----------------------------- changeLeverage -------------------------- *)
\* POST /user/leverage: UserService.changeLeverage is called (no lock); the
\* user is read and leverageModel.findOne is sent
ChangeLeverageRequest(user, symbol, side, leverage) ==
    /\ Macro
    /\ Idle # {}
    /\ tasks' = [tasks EXCEPT ![FreeTask] =
          [IdleTask EXCEPT !.kind = "changeLeverage", !.pc = "chl_find",
                           !.leverage = leverage,
                           !.order = [NoOrder EXCEPT !.user = user, !.symbol = symbol,
                                                     !.positionSide = side]]]
    /\ UNCHANGED <<storage, projection, watch, caches, CreateOrderMutex,
                   UpdateOrderMutex, commonMutex, leverageQueue, ready>>

\* findOne has answered: a missing row is created with the leverage asked
\* for, a locked row with another leverage is refused (400), another
\* leverage is sent as updateOne, the same leverage is returned
chl_find(t) ==
    /\ At(t, "chl_find")
    /\ LET task == tasks[t]
           key == <<task.order.user, task.order.symbol, task.order.positionSide>>
           current == leverageModel[key]
       IN  IF ~current.exists
           THEN /\ leverageModel' = [leverageModel EXCEPT ![key] =
                      [leverage |-> task.leverage, locked |-> FALSE, exists |-> TRUE]]
                /\ tasks' = [tasks EXCEPT ![t] = IdleTask]
           ELSE IF current.locked /\ current.leverage # task.leverage
           THEN /\ tasks' = [tasks EXCEPT ![t] = IdleTask]
                /\ UNCHANGED leverageModel
           ELSE IF current.leverage # task.leverage
           THEN /\ tasks' = [tasks EXCEPT ![t].pc = "chl_update"]
                /\ UNCHANGED leverageModel
           ELSE /\ tasks' = [tasks EXCEPT ![t] = IdleTask]
                /\ UNCHANGED leverageModel
    /\ UNCHANGED <<userModel, orderModel, positionModel, walletModel, hedgeModel, projection,
                   watch, caches, CreateOrderMutex, UpdateOrderMutex, commonMutex,
                   leverageQueue, ready>>

\* updateOne({_id}, {$set: {leverage}}) is stored
chl_update(t) ==
    /\ At(t, "chl_update")
    /\ LET task == tasks[t]
           key == <<task.order.user, task.order.symbol, task.order.positionSide>>
       IN  leverageModel' = [leverageModel EXCEPT ![key].leverage = task.leverage]
    /\ tasks' = [tasks EXCEPT ![t] = IdleTask]
    /\ UNCHANGED <<userModel, orderModel, positionModel, walletModel, hedgeModel, projection,
                   watch, caches, CreateOrderMutex, UpdateOrderMutex, commonMutex,
                   leverageQueue, ready>>

(* ------------------------------- startup ------------------------------- *)
\* getOpenOrdersAndPositions, lines 818-834: the stored open LIMIT orders
\* and the stored open positions
openOrders ==
    {id \in OrderIds : /\ orderModel[id].type = "LIMIT"
                       /\ orderModel[id].status \in {"NEW", "PARTIALLY_FILLED"}}

openPositions == {p \in PosIds : positionModel[p].status = "NEW"}

\* updateBalances, lines 855-897: what the open spot orders of `orders` and
\* the open positions of `positions` hold of the user's `asset`
RECURSIVE lockedBalances(_, _, _, _)
lockedBalances(orders, positions, user, asset) ==
    IF orders # {}
    THEN LET id == CHOOSE x \in orders : TRUE
             o == orderModel[id]
             symbol == SymbolInfo(o.symbol)
             qty == IF o.side = "BUY" THEN o.quoteAmount - o.filledQuoteAmount
                    ELSE o.amount - o.filledAmount
             held == ~isFutures(symbol.exchange) /\ o.user = user
                     /\ asset = (IF o.side = "BUY" THEN symbol.quoteAsset.name
                                 ELSE symbol.baseAsset.name)
         IN  (IF held THEN qty ELSE 0)
                 + lockedBalances(orders \ {id}, positions, user, asset)
    ELSE IF positions # {}
    THEN LET id == CHOOSE x \in positions : TRUE
             p == positionModel[id]
             symbol == SymbolInfo(p.symbol)
             held == p.user = user
                     /\ asset = (IF isCoinm(symbol.exchange)
                                 THEN symbol.baseAsset.name
                                 ELSE symbol.quoteAsset.name)
         IN  (IF held THEN p.margin ELSE 0)
                 + lockedBalances(orders, positions \ {id}, user, asset)
    ELSE 0

\* a reconciliation that overwrites locked and leaves free as it is
updateBalancesLockedOnly(wallets) ==
    [k \in Users \X Assets |->
        [free |-> wallets[k].free,
         locked |-> lockedBalances(openOrders, openPositions, k[1], k[2])]]

\* updateBalances, lines 898-937: a row whose locked differs from a non-zero
\* computed amount has the difference moved between free and locked; a row
\* with locked # 0 and nothing computed is set to locked 0, its free raised
\* by locked unless locked is negative
updateBalances(wallets) ==
    [k \in Users \X Assets |->
        LET b == wallets[k]
            fromOrders == lockedBalances(openOrders, openPositions, k[1], k[2])
            diff == b.locked - fromOrders
        IN  IF k[1] \notin userModel THEN b
            ELSE IF fromOrders # 0 /\ fromOrders # b.locked
            THEN [free |-> b.free + diff, locked |-> b.locked - diff]
            ELSE IF fromOrders = 0 /\ b.locked # 0
            THEN [free |-> b.free + (IF b.locked < 0 THEN 0 ELSE b.locked),
                  locked |-> 0]
            ELSE b]

\* updateNotSidedLeverages, lines 552-607: a locked row without a side gets
\* BOTH in one-way mode; in hedge mode it gets SHORT and a LONG copy with
\* two open positions on the symbol, and else the side of the first one (no
\* change without one).  A side that has a row already keeps that row.
updateNotSidedLeverages(leverages) ==
    LET positions(user, symbol) ==
            {p \in openPositions : /\ positionModel[p].user = user
                                   /\ positionModel[p].symbol = symbol}
        first(S) == CHOOSE p \in S : \A q \in S : p <= q
        notSided(user, symbol) ==
            /\ leverages[<<user, symbol, "">>].exists
            /\ leverages[<<user, symbol, "">>].locked
        two(user, symbol) ==
            hedgeModel[user] /\ Cardinality(positions(user, symbol)) = 2
        side(user, symbol) ==
            IF ~hedgeModel[user] THEN "BOTH"
            ELSE IF two(user, symbol) THEN "SHORT"
            ELSE IF positions(user, symbol) # {}
            THEN positionModel[first(positions(user, symbol))].positionSide
            ELSE ""
    IN  [k \in Users \X Symbols \X Sides |->
            LET f == leverages[<<k[1], k[2], "">>]
            IN  IF ~notSided(k[1], k[2]) \/ side(k[1], k[2]) = "" THEN leverages[k]
                ELSE IF k[3] = "" THEN NoLeverage
                ELSE IF leverages[k].exists THEN leverages[k]
                ELSE IF k[3] = side(k[1], k[2]) THEN f
                ELSE IF k[3] = "LONG" /\ two(k[1], k[2])
                THEN [leverage |-> f.leverage, locked |-> TRUE, exists |-> TRUE]
                ELSE leverages[k]]

\* The process is restarted while no operation is in flight, and
\* onModuleInit (lines 526-550) runs to its end before the next request:
\* memory starts empty, updateBalances corrects the wallets, checkOrdersInDb
\* and checkPositionsInDb (lines 720-753) rebuild projection B and the watch
\* set, the channels of the watch set are subscribed to, addSymbols fills
\* the symbol cache and updateNotSidedLeverages gives its rows a side
Restart ==
    /\ Macro
    /\ \A t \in TaskIds : tasks[t].kind = "idle"
    /\ \A k \in Users \X Symbols : leverageQueue[k] = <<>>
    /\ restarts < MaxRestarts
    /\ restarts' = restarts + 1
    /\ walletModel' = updateBalances(walletModel)
    /\ leverageModel' = updateNotSidedLeverages(leverageModel)
    /\ currentOrders' = [id \in OrderIds |->
          IF id \in openOrders THEN orderModel[id] ELSE NoOrder]
    /\ positionObjects' = [p \in PosIds |->
          IF p \in openPositions THEN positionModel[p] ELSE NoPosition]
    /\ currentPositions' = openPositions
    /\ LET holders(symbol) ==
              {OrderHolder(id) : id \in {x \in openOrders :
                                            orderModel[x].symbol = symbol}}
              \cup {PositionHolder(p) : p \in {x \in openPositions :
                                            positionModel[x].symbol = symbol}}
       IN  /\ watchSymbols' = [symbol \in Symbols |-> holders(symbol)]
           /\ subscribed' = {symbol \in Symbols : holders(symbol) # {}}
    /\ symbolsMap' = Symbols
    /\ symbolPriceMap' = [symbol \in Symbols |-> 0]
    /\ tickerSignatureMap' = [symbol \in Symbols |-> <<>>]
    /\ msg' = NoMsg
    /\ CreateOrderMutex' = [k \in Users \X Symbols |-> Unlocked]
    /\ UpdateOrderMutex' = [id \in OrderIds |-> Unlocked]
    /\ commonMutex' = [id \in PosIds |-> Unlocked]
    /\ UNCHANGED <<userModel, orderModel, positionModel, hedgeModel,
                   leverageQueue, tasks, ready>>

(* ---------------------------- specifications --------------------------- *)
\* the requests and tickers of the spot market
SpotOrders ==
    {[side |-> sd, type |-> ty, price |-> IF ty = "LIMIT" THEN 10 ELSE 0,
      amount |-> 2000, reduceOnly |-> FALSE] :
        sd \in {"BUY", "SELL"}, ty \in {"LIMIT", "MARKET"}}
SpotTicks ==
    {[bestBid |-> 10, bestAsk |-> 10, bidQty |-> q, askQty |-> q, price |-> 10] :
        q \in {1000, 2000}}

\* the requests and tickers of the linear futures market
FutOrders ==
    {[side |-> "BUY", type |-> "MARKET", price |-> 0, amount |-> am,
      reduceOnly |-> FALSE] : am \in {5000, 10000}}
    \cup {[side |-> "SELL", type |-> "MARKET", price |-> 0, amount |-> am,
           reduceOnly |-> ro] : am \in {5000, 10000}, ro \in BOOLEAN}
    \cup {[side |-> "SELL", type |-> "LIMIT", price |-> 400, amount |-> 5000,
           reduceOnly |-> ro] : ro \in BOOLEAN}
    \cup {[side |-> "BUY", type |-> "LIMIT", price |-> 100, amount |-> 5000,
           reduceOnly |-> FALSE]}
\* open, reduce, flip
FlipOrders ==
    {[side |-> "BUY", type |-> "MARKET", price |-> 0, amount |-> 10000,
      reduceOnly |-> FALSE]}
    \cup {[side |-> "SELL", type |-> "MARKET", price |-> 0, amount |-> am,
           reduceOnly |-> FALSE] : am \in {5000, 10000}}
FutTicks ==
    {[bestBid |-> p, bestAsk |-> p, bidQty |-> 0, askQty |-> 0, price |-> p] :
        p \in {100, 400}}

\* the steps of the operations both markets run
Steps(prices) ==
    \/ RunMicrotask
    \/ \E t \in TaskIds :
          \/ co_read(t)
          \/ \E fetched \in prices : co_check(t, fetched)
          \/ cl_persist(t)
          \/ pm_persist(t)
          \/ pc_find(t)
          \/ pc_status(t)
          \/ plo_info(t)
          \/ plo_queries(t)

\* the steps of the futures settlement and of liquidation
FuturesSteps ==
    \/ \E t \in TaskIds :
          \/ cfp_find(t)
          \/ pfp_hedge(t)
          \/ pfp_create(t)
          \/ pfp_trimOrder(t)
          \/ pfp_update(t)
          \/ pfp_balance(t)
    \/ \E user \in Users : LeverageApply(user, FutSymbol)

Requests(symbol, orders, ticks, cap) ==
    \/ \E user \in Users, o \in orders :
          CreateOrderRequest(user, symbol, o.side, o.type, o.price, o.amount,
                             o.reduceOnly, cap)
    \/ \E id \in ClientOrderIds : CancelRequest(id)
    \/ \E data \in ticks : Tick(symbol, data)

\* the spot market: limit and market orders, cancels and tickers
NextSpot ==
    \/ Requests(SpotSymbol, SpotOrders, SpotTicks, MaxOrders - 1)
    \/ Steps({10})
    \/ \E t \in TaskIds :
          \/ cl_balance(t)
          \/ pm_balance(t)
          \/ pc_balance(t)

SpecSpot == Init /\ [][NextSpot]_vars

\* the linear futures market, one-way mode
Next ==
    \/ Requests(FutSymbol, FutOrders, FutTicks, MaxOrders - 1)
    \/ Steps({100, 400})
    \/ FuturesSteps

Spec == Init /\ [][Next]_vars

\* the linear futures market under market orders that open, reduce and
\* flip a long position
NextFlip ==
    \/ \E user \in Users, o \in FlipOrders :
          CreateOrderRequest(user, FutSymbol, o.side, o.type, o.price, o.amount,
                             o.reduceOnly, MaxOrders)
    \/ \E data \in FutTicks : Tick(FutSymbol, data)
    \/ RunMicrotask
    \/ \E t \in TaskIds :
          \/ co_read(t)
          \/ \E fetched \in {100, 400} : co_check(t, fetched)
          \/ pm_persist(t)
    \/ FuturesSteps

SpecFlip == Init /\ [][NextFlip]_vars

\* the linear futures market at one price, with leverage changes: market
\* orders and a limit order that a ticker fills
LeverageOrders ==
    {[side |-> sd, type |-> "MARKET", price |-> 0, amount |-> 5000,
      reduceOnly |-> FALSE] : sd \in {"BUY", "SELL"}}
    \cup {[side |-> "BUY", type |-> "LIMIT", price |-> 100, amount |-> 5000,
           reduceOnly |-> FALSE]}
Leverages == {2, 4}

NextLeverage ==
    \/ \E user \in Users, o \in LeverageOrders :
          CreateOrderRequest(user, FutSymbol, o.side, o.type, o.price, o.amount,
                             o.reduceOnly, MaxOrders - 1)
    \/ \E user \in Users, leverage \in Leverages :
          ChangeLeverageRequest(user, FutSymbol, "BOTH", leverage)
    \/ Tick(FutSymbol, [bestBid |-> 100, bestAsk |-> 100, bidQty |-> 0,
                        askQty |-> 0, price |-> 100])
    \/ RunMicrotask
    \/ \E t \in TaskIds :
          \/ co_read(t)
          \/ co_check(t, 100)
          \/ cl_persist(t)
          \/ pm_persist(t)
          \/ plo_info(t)
          \/ plo_queries(t)
          \/ pfp_hedge(t)
          \/ pfp_create(t)
          \/ pfp_update(t)
          \/ pfp_balance(t)
          \/ chl_find(t)
          \/ chl_update(t)
    \/ \E user \in Users : LeverageApply(user, FutSymbol)

SpecLeverage == Init /\ [][NextLeverage]_vars

\* the linear futures market under one ticker: a long position opened at
\* 400 and a resting buy order at 100 meet a ticker at 100, which selects
\* the position for liquidation and the order for a fill
BatchOrders ==
    {[side |-> "BUY", type |-> ty, price |-> IF ty = "LIMIT" THEN 100 ELSE 0,
      amount |-> 5000, reduceOnly |-> FALSE] : ty \in {"MARKET", "LIMIT"}}

NextBatch ==
    \/ \E user \in Users, o \in BatchOrders :
          CreateOrderRequest(user, FutSymbol, o.side, o.type, o.price, o.amount,
                             o.reduceOnly, MaxOrders - 1)
    \/ Tick(FutSymbol, [bestBid |-> 100, bestAsk |-> 100, bidQty |-> 0,
                        askQty |-> 0, price |-> 100])
    \/ RunMicrotask
    \/ \E t \in TaskIds :
          \/ co_read(t)
          \/ co_check(t, 400)
          \/ cl_persist(t)
          \/ pm_persist(t)
          \/ plo_info(t)
          \/ plo_queries(t)
          \/ cfp_find(t)
          \/ pfp_hedge(t)
          \/ pfp_create(t)
          \/ pfp_update(t)
          \/ pfp_balance(t)
    \/ \E user \in Users : LeverageApply(user, FutSymbol)

SpecBatch == Init /\ [][NextBatch]_vars

\* the orders and the tick of SpecBatch, and a user whose record is
\* deleted at any moment
NextUserGone ==
    \/ NextBatch
    \/ \E user \in Users : DeleteUser(user)

SpecUserGone == Init /\ [][NextUserGone]_vars

\* The state after UserService.create (part_009, lines 167-205) and
\* onModuleInit: the user has wallets and no leverage row yet
InitFresh ==
    /\ userModel = Users
    /\ orderModel = [id \in OrderIds |-> NoOrder]
    /\ positionModel = [id \in PosIds |-> NoPosition]
    /\ walletModel = [k \in Users \X Assets |->
          [free |-> InitFunds(k[2]), locked |-> 0]]
    /\ leverageModel = [k \in Users \X Symbols \X Sides |-> NoLeverage]
    /\ hedgeModel = [u \in Users |-> FALSE]
    /\ currentOrders = [id \in OrderIds |-> NoOrder]
    /\ positionObjects = [id \in PosIds |-> NoPosition]
    /\ currentPositions = {}
    /\ watchSymbols = [s \in Symbols |-> {}]
    /\ subscribed = {}
    /\ symbolsMap = {}
    /\ symbolPriceMap = [s \in Symbols |-> 0]
    /\ tickerSignatureMap = [s \in Symbols |-> <<>>]
    /\ msg = NoMsg
    /\ restarts = 0
    /\ CreateOrderMutex = [k \in Users \X Symbols |-> Unlocked]
    /\ UpdateOrderMutex = [id \in OrderIds |-> Unlocked]
    /\ commonMutex = [id \in PosIds |-> Unlocked]
    /\ leverageQueue = [k \in Users \X Symbols |-> <<>>]
    /\ tasks = [t \in TaskIds |-> IdleTask]
    /\ ready = <<>>

\* futures orders of a new user at price 400 and leverage 1: the margin of
\* 5000 is within the 4000000 USDT of the wallet, the margin of 20000 is not
FreshOrders ==
    {[side |-> sd, type |-> "MARKET", price |-> 0, amount |-> a,
      reduceOnly |-> FALSE] : sd \in {"BUY", "SELL"}, a \in {5000, 20000}}

NextFresh ==
    \/ \E user \in Users, o \in FreshOrders :
          CreateOrderRequest(user, FutSymbol, o.side, o.type, o.price, o.amount,
                             o.reduceOnly, MaxOrders)
    \/ \E t \in TaskIds :
          \/ co_read(t)
          \/ co_check(t, 400)
          \/ pm_persist(t)
          \/ pfp_hedge(t)
          \/ pfp_create(t)
          \/ pfp_update(t)
          \/ pfp_balance(t)
    \/ \E user \in Users : LeverageApply(user, FutSymbol)

SpecFresh == InitFresh /\ [][NextFresh]_vars

\* the spot market without tickers: any externalId may be cancelled at
\* any moment, whether it is unknown, open or terminal in storage
NextCancel ==
    \/ \E user \in Users, o \in SpotOrders :
          CreateOrderRequest(user, SpotSymbol, o.side, o.type, o.price, o.amount,
                             o.reduceOnly, MaxOrders - 1)
    \/ \E user \in Users, id \in ClientOrderIds : CancelOrderRequest(user, id)
    \/ \E t \in TaskIds :
          \/ co_read(t)
          \/ co_check(t, 10)
          \/ cl_persist(t)
          \/ cl_balance(t)
          \/ pm_persist(t)
          \/ pm_balance(t)
          \/ pc_find(t)
          \/ pc_status(t)
          \/ pc_balance(t)

SpecCancel == Init /\ [][NextCancel]_vars

\* spot LIMIT orders below, at and above the market price of 10
CrossOrders ==
    {[side |-> sd, type |-> "LIMIT", price |-> p, amount |-> 2000,
      reduceOnly |-> FALSE] : sd \in {"BUY", "SELL"}, p \in {5, 10, 20}}

NextCross ==
    \/ \E user \in Users, o \in CrossOrders :
          CreateOrderRequest(user, SpotSymbol, o.side, o.type, o.price, o.amount,
                             o.reduceOnly, MaxOrders - 1)
    \/ Tick(SpotSymbol, [bestBid |-> 10, bestAsk |-> 10, bidQty |-> 2000,
                         askQty |-> 2000, price |-> 10])
    \/ RunMicrotask
    \/ \E t \in TaskIds :
          \/ co_read(t)
          \/ co_check(t, 10)
          \/ cl_persist(t)
          \/ cl_balance(t)
          \/ pm_persist(t)
          \/ pm_balance(t)
          \/ plo_info(t)
          \/ plo_queries(t)

SpecCross == Init /\ [][NextCross]_vars

\* Limit orders at 10 on the spot symbol and at 100 on the futures symbol,
\* and tickers that touch the spot orders on both sides, on one side only
\* (the other side quotes no size, or is priced away) or not at all; the
\* tickers of the futures symbol stay away from its orders
MatchTicks ==
    {[bestBid |-> 10, bestAsk |-> 10, bidQty |-> 2000, askQty |-> 0, price |-> 10],
     [bestBid |-> 10, bestAsk |-> 10, bidQty |-> 0, askQty |-> 2000, price |-> 10],
     [bestBid |-> 5, bestAsk |-> 20, bidQty |-> 2000, askQty |-> 2000, price |-> 10],
     [bestBid |-> 20, bestAsk |-> 20, bidQty |-> 2000, askQty |-> 2000, price |-> 20]}

NextMatch ==
    \/ \E user \in Users, side \in {"BUY", "SELL"} :
          CreateOrderRequest(user, SpotSymbol, side, "LIMIT", 10, 2000, FALSE,
                             MaxOrders - 1)
    \/ \E user \in Users :
          CreateOrderRequest(user, FutSymbol, "BUY", "LIMIT", 100, 5000, FALSE,
                             MaxOrders - 1)
    \/ \E data \in MatchTicks : Tick(SpotSymbol, data)
    \/ Tick(FutSymbol, [bestBid |-> 400, bestAsk |-> 400, bidQty |-> 0,
                        askQty |-> 0, price |-> 400])
    \/ RunMicrotask
    \/ \E t \in TaskIds :
          \/ co_read(t)
          \/ co_check(t, IF tasks[t].order.symbol = SpotSymbol THEN 10 ELSE 400)
          \/ cl_persist(t)
          \/ cl_balance(t)
          \/ plo_info(t)
          \/ plo_queries(t)

SpecMatch == Init /\ [][NextMatch]_vars

\* the spot market with tickers that may repeat the last signature and may
\* arrive later than newDataLimit after their event time
NextReplay ==
    \/ \E user \in Users, side \in {"BUY", "SELL"} :
          CreateOrderRequest(user, SpotSymbol, side, "LIMIT", 10, 2000, FALSE,
                             MaxOrders - 1)
    \/ \E data \in SpotTicks, late \in BOOLEAN : processTickers(SpotSymbol, data, late)
    \/ RunMicrotask
    \/ \E t \in TaskIds :
          \/ co_read(t)
          \/ co_check(t, 10)
          \/ cl_persist(t)
          \/ cl_balance(t)
          \/ plo_info(t)
          \/ plo_queries(t)

SpecReplay == Init /\ [][NextReplay]_vars

\* the futures market of a user who switches the hedge mode and sends
\* MARKET orders with positionSide BOTH, LONG or none
NextHedge ==
    \/ \E user \in Users, positionSide \in {"BOTH", "LONG", ""} :
          CreateOrderSided(user, FutSymbol, "BUY", "MARKET", 0, 5000, FALSE,
                           positionSide, MaxOrders - 1)
    \/ \E user \in Users, hedge \in BOOLEAN : ChangeHedgeRequest(user, hedge)
    \/ \E t \in TaskIds :
          \/ co_read(t)
          \/ co_check(t, 400)
          \/ pm_persist(t)
          \/ pfp_hedge(t)
          \/ pfp_create(t)
          \/ pfp_update(t)
          \/ pfp_balance(t)
          \/ chh_find(t)
          \/ chh_update(t)
    \/ \E user \in Users : LeverageApply(user, FutSymbol)

SpecHedge == Init /\ [][NextHedge]_vars

\* spot limit orders, their cancels and one ticker that touches them: its
\* signature lets it through once, so no two fills of an order overlap
NextCancelFill ==
    \/ \E user \in Users, side \in {"BUY", "SELL"} :
          CreateOrderRequest(user, SpotSymbol, side, "LIMIT", 10, 2000, FALSE,
                             MaxOrders - 1)
    \/ \E id \in ClientOrderIds : CancelRequest(id)
    \/ Tick(SpotSymbol, [bestBid |-> 10, bestAsk |-> 10, bidQty |-> 1000,
                         askQty |-> 1000, price |-> 10])
    \/ RunMicrotask
    \/ \E t \in TaskIds :
          \/ co_read(t)
          \/ co_check(t, 10)
          \/ cl_persist(t)
          \/ cl_balance(t)
          \/ pc_find(t)
          \/ pc_status(t)
          \/ pc_balance(t)
          \/ plo_info(t)
          \/ plo_queries(t)

SpecCancelFill == Init /\ [][NextCancelFill]_vars

\* a spot limit order, a futures market order, cancels, tickers of the spot
\* pair and restarts of the process
NextRestart ==
    \/ \E user \in Users :
          \/ CreateOrderRequest(user, SpotSymbol, "BUY", "LIMIT", 10, 2000, FALSE,
                                MaxOrders - 1)
          \/ CreateOrderRequest(user, FutSymbol, "BUY", "MARKET", 0, 5000, FALSE,
                                MaxOrders - 1)
    \/ \E id \in ClientOrderIds : CancelRequest(id)
    \/ \E qty \in {1000, 2000} :
          Tick(SpotSymbol, [bestBid |-> 10, bestAsk |-> 10, bidQty |-> qty,
                            askQty |-> qty, price |-> 10])
    \/ Restart
    \/ RunMicrotask
    \/ \E t \in TaskIds :
          \/ co_read(t)
          \/ co_check(t, IF tasks[t].order.symbol = SpotSymbol THEN 10 ELSE 100)
          \/ cl_persist(t)
          \/ cl_balance(t)
          \/ pm_persist(t)
          \/ pc_find(t)
          \/ pc_status(t)
          \/ pc_balance(t)
          \/ plo_info(t)
          \/ plo_queries(t)
          \/ pfp_hedge(t)
          \/ pfp_create(t)
          \/ pfp_balance(t)
    \/ \E user \in Users : LeverageApply(user, FutSymbol)

SpecRestart == Init /\ [][NextRestart]_vars

\* both markets at once: a spot BUY LIMIT and a futures BUY MARKET of one
\* user, each reserving 3000000 of the user's 4000000 USDT; nothing in
\* these runs credits a wallet
NextShared ==
    \/ \E user \in Users :
          \/ CreateOrderRequest(user, SpotSymbol, "BUY", "LIMIT", 10, 300000, FALSE,
                                MaxOrders)
          \/ CreateOrderRequest(user, FutSymbol, "BUY", "MARKET", 0, 15000, FALSE,
                                MaxOrders)
    \/ \E t \in TaskIds :
          \/ co_read(t)
          \/ co_check(t, IF tasks[t].order.symbol = SpotSymbol THEN 15 ELSE 400)
          \/ cl_persist(t)
          \/ cl_balance(t)
          \/ pm_persist(t)
          \/ pfp_hedge(t)
          \/ pfp_create(t)
          \/ pfp_balance(t)
    \/ \E user \in Users : LeverageApply(user, FutSymbol)

SpecShared == Init /\ [][NextShared]_vars

\* the steps of the operation that task t runs: each is the completion of
\* the storage, pub/sub or external call the operation awaits
TaskStep(t) ==
    \/ co_read(t)
    \/ co_check(t, 400)
    \/ cl_persist(t)
    \/ pm_persist(t)
    \/ pc_find(t)
    \/ pc_status(t)
    \/ plo_info(t)
    \/ plo_queries(t)
    \/ cfp_find(t)
    \/ pfp_hedge(t)
    \/ pfp_create(t)
    \/ pfp_trimOrder(t)
    \/ pfp_update(t)
    \/ pfp_balance(t)

\* the linear futures market with a position, a reduce-only limit order and
\* the tickers that liquidate the position
NextFair ==
    \/ \E user \in Users :
          \/ CreateOrderRequest(user, FutSymbol, "BUY", "MARKET", 0, 5000, FALSE,
                                MaxOrders - 1)
          \/ CreateOrderRequest(user, FutSymbol, "SELL", "LIMIT", 400, 10000, TRUE,
                                MaxOrders - 1)
    \/ \E id \in ClientOrderIds : CancelRequest(id)
    \/ \E data \in FutTicks : Tick(FutSymbol, data)
    \/ RunMicrotask
    \/ \E t \in TaskIds : TaskStep(t)
    \/ \E user \in Users : LeverageApply(user, FutSymbol)

\* Every awaited call returns and every operation is scheduled: a pending
\* microtask runs (nothing else can), a completion that is ready again and
\* again is delivered, and a queued leverage update is applied.  Requests
\* and tickers may stop at any time.
Fairness ==
    /\ WF_vars(RunMicrotask)
    /\ \A t \in TaskIds : SF_vars(TaskStep(t))
    /\ \A user \in Users : WF_vars(LeverageApply(user, FutSymbol))

SpecFair == Init /\ [][NextFair]_vars /\ Fairness

(* ------------------------------- claims -------------------------------- *)
\* a rest point: no operation in flight
Rest ==
    /\ \A t \in TaskIds : tasks[t].kind = "idle"
    /\ ready = <<>>
    /\ \A k \in Users \X Symbols : leverageQueue[k] = <<>>

RECURSIVE SumOver(_, _)
SumOver(S, f) ==
    IF S = {} THEN 0
    ELSE LET x == CHOOSE y \in S : TRUE IN f[x] + SumOver(S \ {x}, f)

\* C1: at every rest point every wallet row has free >= 0 and locked >= 0
C1_WalletsNonNegative ==
    Rest => \A k \in Users \X Assets :
                walletModel[k].free >= 0 /\ walletModel[k].locked >= 0

\* the residual reservation of a stored order on `asset`
Reservation(id, asset) ==
    LET order == orderModel[id]
        symbol == SymbolInfo(order.symbol)
    IN  IF order.status \notin {"NEW", "PARTIALLY_FILLED"} \/ order.type # "LIMIT"
           \/ isFutures(symbol.exchange)
        THEN 0
        ELSE IF order.side = "BUY" /\ symbol.quoteAsset.name = asset
        THEN order.quoteAmount - order.filledQuoteAmount
        ELSE IF order.side = "SELL" /\ symbol.baseAsset.name = asset
        THEN order.amount - order.filledAmount
        ELSE 0

\* the margin a stored open position holds on `asset`
MarginOn(p, asset) ==
    LET position == positionModel[p]
        symbol == SymbolInfo(position.symbol)
    IN  IF position.status = "NEW"
           /\ asset = (IF isCoinm(symbol.exchange) THEN symbol.baseAsset.name
                       ELSE symbol.quoteAsset.name)
        THEN position.margin ELSE 0

\* C2: at every rest point wallet.locked is the sum of the residual
\* reservations of the user's open spot limit orders and of the margins of
\* the user's open positions on that asset
C2_LockedIsReservationsPlusMargins ==
    Rest => \A user \in Users, asset \in Assets :
        walletModel[<<user, asset>>].locked =
            SumOver({id \in OrderIds : orderModel[id].user = user},
                    [id \in OrderIds |-> Reservation(id, asset)])
            + SumOver({p \in PosIds : positionModel[p].user = user},
                      [p \in PosIds |-> MarginOn(p, asset)])

\* C3: for every order in storage and in B, 0 <= filledAmount <= amount
C3_FilledWithinAmount ==
    \A id \in OrderIds :
        /\ 0 <= orderModel[id].filledAmount
        /\ orderModel[id].filledAmount <= orderModel[id].amount
        /\ 0 <= currentOrders[id].filledAmount
        /\ currentOrders[id].filledAmount <= currentOrders[id].amount

\* C4: an order whose stored status is FILLED, CANCELED or EXPIRED is
\* never inserted into B afterwards
C4_TerminalNeverEntersB ==
    [][\A id \in OrderIds :
          orderModel[id].status \in Terminal /\ currentOrders[id] = NoOrder
              => currentOrders'[id] = NoOrder]_vars

\* C5: the stored status of an order changes only NEW -> PARTIALLY_FILLED,
\* {NEW, PARTIALLY_FILLED} -> FILLED, CANCELED or EXPIRED; terminal statuses
\* are absorbing
C5_StatusTransitions ==
    [][\A id \in OrderIds :
          \/ orderModel'[id].status = orderModel[id].status
          \/ orderModel[id].status = "NONE"
          \/ /\ orderModel[id].status = "NEW"
             /\ orderModel'[id].status \in {"PARTIALLY_FILLED"} \cup Terminal
          \/ /\ orderModel[id].status = "PARTIALLY_FILLED"
             /\ orderModel'[id].status \in Terminal]_vars

\* the live orders and open positions of B on a symbol, as holder ids
LiveHolders(symbol) ==
    {OrderHolder(id) : id \in {o \in OrderIds :
        /\ currentOrders[o].symbol = symbol
        /\ currentOrders[o].status \in {"NEW", "PARTIALLY_FILLED"}}}
    \cup {PositionHolder(p) : p \in {q \in currentPositions :
        /\ positionObjects[q].symbol = symbol
        /\ positionObjects[q].status = "NEW"}}

\* C6: every order of B with status NEW or PARTIALLY_FILLED and every
\* position of B with status NEW has its holder id in the watch-set entry
\* of its symbol
C6_LiveEntriesAreWatched ==
    \A symbol \in Symbols : LiveHolders(symbol) \subseteq watchSymbols[symbol]

\* a live limit order and an open position of B, both watched
C6_Witness ==
    \E id \in OrderIds, p \in currentPositions :
        /\ currentOrders[id].status \in {"NEW", "PARTIALLY_FILLED"}
        /\ positionObjects[p].status = "NEW"
        /\ currentOrders[id].symbol = positionObjects[p].symbol
        /\ {OrderHolder(id), PositionHolder(p)}
               \subseteq watchSymbols[currentOrders[id].symbol]

\* C7: at every rest point a watch-set entry exists if and only if a live
\* order or an open position references the symbol
C7_WatchEntryIffLive ==
    Rest => \A symbol \in Symbols :
                watchSymbols[symbol] # {} <=> LiveHolders(symbol) # {}

C9_ReduceOnlyOnlyReduces ==
    [][\A t \in TaskIds :
          LET order == tasks[t].order
              find == findPosition(order.user, order.symbol,
                                   hedgeModel[order.user], order.positionSide)
          IN  /\ (tasks[t].pc = "pfp_hedge" /\ tasks'[t].pc # "pfp_hedge"
                   /\ order.reduceOnly)
                     => tasks'[t].branch \in {"close", "trim", "reduce"}
              /\ (tasks[t].pc = "co_check" /\ order.reduceOnly /\ find = 0)
                     => tasks'[t].pc \notin {"cl_persist", "pm_persist"}]_vars

\* C10: at every rest point the leverage row of (user, symbol) is locked
\* while the user has an open position on the symbol, and unlocked
\* otherwise.  In one-way mode the row is that of the order's positionSide,
\* BOTH, under which the position was opened.
C10_LeverageLockedIffOpen ==
    Rest => \A user \in Users, symbol \in Symbols :
        leverageModel[<<user, symbol, "BOTH">>].locked
            <=> \E p \in PosIds : /\ positionModel[p].status = "NEW"
                                  /\ positionModel[p].user = user
                                  /\ positionModel[p].symbol = symbol

\* C11: while a leverage row is locked its leverage value never changes
C11_LockedLeverageImmutable ==
    [][\A k \in Users \X Symbols \X Sides :
          leverageModel[k].locked
              => leverageModel'[k].leverage = leverageModel[k].leverage]_vars

\* the settlement work of ticks in flight: limit fills and liquidations,
\* with the cancels and the order a liquidation runs
TickWork ==
    {t \in TaskIds : tasks[t].kind \in {"limit", "close"} \/ tasks[t].caller = "close"}

\* C12: the settlement work of one tick batch is complete before that of
\* the next tick batch of the exchange begins: a tick starts fills or
\* liquidations only when none is in flight
C12_TicksNeverInterleave ==
    [][(\E t \in TaskIds : /\ tasks[t].kind = "idle"
                            /\ tasks'[t].kind \in {"limit", "close"})
          => TickWork = {}]_vars

\* C13: within one tick batch every liquidation has taken effect before a
\* limit fill selected by the same tick is applied (SpecBatch has one tick
\* batch, so work in flight belongs to the same tick)
C13_LiquidationsBeforeFills ==
    [][\A t \in TaskIds :
          (tasks[t].kind = "limit" /\ tasks[t].pc # "plo_queries"
           /\ tasks'[t].kind = "limit" /\ tasks'[t].pc = "plo_queries")
              => \A u \in TaskIds :
                    tasks[u].kind # "close" /\ tasks[u].caller # "close"]_vars

\* C14: the order that liquidates a position executes at the position's
\* liquidationPrice: it is a reduce-only MARKET order of positionAmt on the
\* opposite side, its execution price is liquidationPrice, and the position
\* it closes has closePrice = liquidationPrice
C14_LiquidationAtLiquidationPrice ==
    \A t \in TaskIds :
        (tasks[t].caller = "close" /\ tasks[t].kind = "createOrder"
         /\ tasks[t].order.status = "FILLED")
            => LET order == tasks[t].order
                   position == positionObjects[tasks[t].position]
               IN  /\ order.type = "MARKET" /\ order.reduceOnly
                   /\ order.side = (IF position.positionSide = "LONG"
                                    THEN "SELL" ELSE "BUY")
                   /\ order.price = position.liquidationPrice
                   /\ position.status = "CLOSED"
                         => position.closePrice = position.liquidationPrice

\* C15: closeFuturePosition returns without an error, and once it has
\* handled a position whose user has no record any more, the position is
\* CLOSED in storage and is no longer in projection B
C15_UserGoneClosesDurably ==
    Rest => \A p \in PosIds :
               (positionObjects[p].status = "CLOSED"
                /\ positionObjects[p].user \notin userModel)
                   => /\ positionModel[p].status = "CLOSED"
                      /\ p \notin currentPositions

\* C16: while every createOrder so far has been rejected (no order is
\* persisted and none is in flight), storage, projection B and the watch
\* set are what they were before the first request
C16_RejectedChangesNothing ==
    (Rest /\ \A id \in OrderIds : orderModel[id].status = "NONE")
        => /\ \A k \in Users \X Assets :
                 walletModel[k] = [free |-> InitFunds(k[2]), locked |-> 0]
           /\ \A p \in PosIds : positionModel[p] = NoPosition
           /\ \A k \in Users \X Symbols \X Sides : leverageModel[k] = NoLeverage
           /\ \A id \in OrderIds : currentOrders[id] = NoOrder
           /\ currentPositions = {}
           /\ \A s \in Symbols : watchSymbols[s] = {}

\* the reservation of a stored spot order that no fill has consumed
Residual(id) ==
    IF orderModel[id].side = "BUY"
    THEN orderModel[id].quoteAmount - orderModel[id].filledQuoteAmount
    ELSE orderModel[id].amount - orderModel[id].filledAmount

ReservedAsset(id) ==
    IF orderModel[id].side = "BUY" THEN SymbolInfo(orderModel[id].symbol).quoteAsset.name
    ELSE SymbolInfo(orderModel[id].symbol).baseAsset.name

\* C17: a cancel stores CANCELED and moves exactly the unfilled residual of
\* the stored spot LIMIT order (quoteAmount - filledQuoteAmount for BUY,
\* amount - filledAmount for SELL) from locked to free; when nothing was
\* ever filled, the wallets are back at their values before the creates
C17_CancelReleasesResidual ==
    /\ [](Rest /\ (\A id \in OrderIds : /\ orderModel[id].status \in {"NONE", "CANCELED"}
                                         /\ orderModel[id].filledAmount = 0)
            => \A k \in Users \X Assets :
                  walletModel[k] = [free |-> InitFunds(k[2]), locked |-> 0])
    /\ [][\A t \in TaskIds :
            LET id == tasks[t].order.externalId
                k == <<orderModel[id].user, ReservedAsset(id)>>
            IN  /\ (tasks[t].kind = "cancel" /\ tasks[t].pc = "pc_status"
                    /\ tasks'[t].pc # "pc_status")
                       => /\ orderModel'[id].status = "CANCELED"
                          /\ tasks'[t].kind = "idle"
                                => \/ orderModel'[id].type # "LIMIT"
                                   \/ orderModel'[id].amount = orderModel'[id].filledAmount
                                      /\ orderModel'[id].quoteAmount
                                            = orderModel'[id].filledQuoteAmount
                /\ (tasks[t].kind = "cancel" /\ tasks[t].pc = "pc_balance"
                    /\ tasks'[t].pc # "pc_balance")
                       => /\ walletModel'[k].free = walletModel[k].free + Residual(id)
                          /\ walletModel'[k].locked = walletModel[k].locked - Residual(id)
                          /\ \A o \in (Users \X Assets) \ {k} :
                                walletModel'[o] = walletModel[o]]_vars

\* a partially filled order has been cancelled
C17_Witness ==
    /\ Rest
    /\ \E id \in OrderIds :
          /\ orderModel[id].status = "CANCELED"
          /\ orderModel[id].type = "LIMIT"
          /\ 0 < orderModel[id].filledAmount
          /\ orderModel[id].filledAmount < orderModel[id].amount

C20_FillAmountAndStatus ==
    [][\A t \in TaskIds :
          LET live == currentOrders[tasks[t].order.externalId]
              data == tasks[t].data
              futures == isFutures(ExchangeOf(live.symbol))
              sell == live.side = "SELL"
              touched == IF sell THEN data.bestBid ELSE data.bestAsk
              size == IF sell THEN data.bidQty ELSE data.askQty
              matches == /\ IF sell THEN live.price <= touched ELSE live.price >= touched
                         /\ futures \/ size > 0
              better == IF sell THEN live.price < touched ELSE live.price > touched
              remaining == live.amount - live.filledAmount
              whole == futures \/ better \/ remaining <= size
          IN  (/\ tasks[t].kind = "limit" /\ tasks[t].pc \in {"start", "plo_info"}
               /\ tasks'[t].kind = "limit" /\ tasks'[t].pc = "plo_queries"
               /\ matches)
                  => /\ tasks'[t].fill[1] = (IF whole THEN remaining ELSE size)
                     /\ tasks'[t].order.status
                           = (IF whole THEN "FILLED" ELSE "PARTIALLY_FILLED")
                     /\ currentOrders'[live.externalId].filledAmount
                           = live.filledAmount + (IF whole THEN remaining ELSE size)]_vars

\* the tick touches the order: SELL at or below bestBid, BUY at or above
\* bestAsk, and on a spot market the touched side quotes a size
Touches(order, data) ==
    LET futures == isFutures(ExchangeOf(order.symbol))
    IN  \/ order.side = "SELL" /\ order.price <= data.bestBid
           /\ (futures \/ data.bidQty > 0)
        \/ order.side = "BUY" /\ order.price >= data.bestAsk
           /\ (futures \/ data.askQty > 0)

CallSymbol(task) ==
    IF task.kind = "limit" THEN task.order.symbol
    ELSE positionObjects[task.position].symbol

\* the work of the matching engine starts only at a new signature
BatchOnlyAtNewSignature ==
    \A t \in TaskIds :
        (tasks[t].kind = "idle" /\ tasks'[t].kind \in {"limit", "close"})
            => tickerSignatureMap'[CallSymbol(tasks'[t])]
                  # tickerSignatureMap[CallSymbol(tasks'[t])]

\* the delivery of the ticker message changes nothing but the message
DeliveryIsNoOp ==
    UNCHANGED <<orderModel, positionModel, walletModel, leverageModel,
                currentOrders, positionObjects, currentPositions, watchSymbols,
                subscribed, symbolPriceMap, tasks, ready>>

OpenPositions(user, symbol, sides) ==
    {p \in PosIds : /\ positionModel[p].status = "NEW"
                    /\ positionModel[p].user = user
                    /\ positionModel[p].symbol = symbol
                    /\ positionModel[p].positionSide \in sides}

\* C23: at every rest point a user has at most one open position per symbol
\* in one-way mode, and at most one per symbol and positionSide in hedge mode
C23_OneOpenPosition ==
    Rest => \A user \in Users, symbol \in Symbols :
               IF hedgeModel[user]
               THEN \A side \in Sides :
                       Cardinality(OpenPositions(user, symbol, {side})) <= 1
               ELSE Cardinality(OpenPositions(user, symbol, Sides)) <= 1

\* C24: when createOrder reads that the user's hedge mode is on, a futures
\* order whose positionSide is neither LONG nor SHORT is refused: the call
\* ends there and orders, wallets and positions are unchanged
C24_HedgeNeedsPositionSide ==
    [][\A t \in TaskIds :
          (/\ tasks[t].kind = "createOrder" /\ tasks[t].pc = "co_check"
           /\ tasks[t].caller # "close"
           /\ isFutures(ExchangeOf(tasks[t].order.symbol))
           /\ hedgeModel[tasks[t].order.user]
           /\ tasks[t].order.positionSide \notin {"LONG", "SHORT"}
           /\ tasks'[t] # tasks[t])
              => /\ tasks'[t].kind = "idle"
                 /\ UNCHANGED <<orderModel, walletModel, positionModel,
                                positionObjects, currentPositions>>]_vars

\* the createOrder calls of a lock key whose body has started and has
\* neither returned nor thrown
InCreateOrder(key) ==
    {t \in TaskIds : /\ tasks[t].kind = "createOrder"
                     /\ tasks[t].pc # "lock"
                     /\ <<tasks[t].order.user, tasks[t].order.symbol>> = key}

\* C25: the bodies of two createOrder calls with the same key, secret,
\* symbol and exchange never run at the same time, and the call whose body
\* runs holds the IdMutex entry of that key
C25_CreateOrderSerialized ==
    \A key \in Users \X Symbols :
        /\ Cardinality(InCreateOrder(key)) <= 1
        /\ InCreateOrder(key) # {} => CreateOrderMutex[key].locked

\* one createOrder has passed its reads while a second call for the same
\* key waits in the queue of the lock
C25_Witness ==
    \E key \in Users \X Symbols, t \in TaskIds :
        /\ t \in InCreateOrder(key)
        /\ tasks[t].pc \notin {"co_read", "co_check"}
        /\ CreateOrderMutex[key].queue # <<>>
        /\ \A w \in TaskIds : w # t /\ tasks[w].kind = "createOrder"
                                   => tasks[w].pc = "lock"

\* the cancels and fills of an externalId whose body has started
InUpdateOrder(id) ==
    {t \in TaskIds : /\ tasks[t].kind \in {"cancel", "limit"}
                     /\ tasks[t].pc # "lock"
                     /\ tasks[t].order.externalId = id}

\* C26: a cancel and a fill of the same externalId never run at the same
\* time, and what the fills and the cancel of a spot limit order take from
\* locked is what its creation reserved: at rest the locked amount of every
\* wallet row is the sum of the unfilled reservations of the open orders
C26_ReservationConsumedOrReleased ==
    /\ \A id \in OrderIds : Cardinality(InUpdateOrder(id)) <= 1
    /\ Rest => \A user \in Users, asset \in Assets :
                   walletModel[<<user, asset>>].locked =
                       SumOver({id \in OrderIds : orderModel[id].user = user},
                               [id \in OrderIds |-> Reservation(id, asset)])

\* C27: at every rest point projection B agrees with storage: its orders are
\* the stored LIMIT orders with status NEW or PARTIALLY_FILLED, with the
\* stored status and filledAmount, and its positions are the stored
\* positions with status NEW, with the stored positionAmt and margin
C27_ProjectionMatchesStorage ==
    Rest =>
        /\ \A id \in OrderIds :
              /\ currentOrders[id] # NoOrder
                    <=> /\ orderModel[id].type = "LIMIT"
                        /\ orderModel[id].status \in {"NEW", "PARTIALLY_FILLED"}
              /\ currentOrders[id] # NoOrder
                    => /\ currentOrders[id].status = orderModel[id].status
                       /\ currentOrders[id].filledAmount
                              = orderModel[id].filledAmount
        /\ \A p \in PosIds :
              /\ p \in currentPositions <=> positionModel[p].status = "NEW"
              /\ p \in currentPositions
                    => /\ positionObjects[p].positionAmt
                              = positionModel[p].positionAmt
                       /\ positionObjects[p].margin = positionModel[p].margin

\* C28: whatever increases, partial reduces, full closes, reduce-only trims
\* and flips have been settled, every stored position with status NEW has
\* positionAmt > 0 and margin > 0 and every stored position with status
\* CLOSED has margin = 0
C28_PositionAmountAndMargin ==
    Rest => \A p \in PosIds :
               /\ positionModel[p].status = "NEW"
                     => positionModel[p].positionAmt > 0
                        /\ positionModel[p].margin > 0
               /\ positionModel[p].status = "CLOSED"
                     => positionModel[p].margin = 0

\* what the user's stored open spot limit orders and open positions hold
\* of `asset`
ExpectedLocked(user, asset) ==
    SumOver({id \in OrderIds : orderModel[id].user = user},
            [id \in OrderIds |-> Reservation(id, asset)])
    + SumOver({p \in PosIds : positionModel[p].user = user},
              [p \in PosIds |-> MarginOn(p, asset)])

CloseTaken(t) ==
    /\ tasks[t].pc = "pfp_hedge"
    /\ tasks'[t].pc = "pfp_update"
    /\ tasks'[t].branch = "close"

CloseStored(t) ==
    tasks[t].pc = "pfp_update" /\ tasks[t].branch = "close"
        /\ tasks'[t].pc = "pfp_balance"

ClosePaid(t) ==
    tasks[t].pc = "pfp_balance" /\ tasks[t].branch = "close"
        /\ tasks'[t].pc # "pfp_balance"

\* the realized profit of closing linear position `position` at `price`,
\* net of the order's fee
RealizedPnL(position, price, fee) ==
    (position.positionAmt * price - position.positionAmt * position.entryPrice)
        * (IF position.positionSide = "LONG" THEN 1 ELSE -1) - fee

\* C30: when an opposite-direction order closes an open position whole, the
\* position becomes CLOSED with margin 0 and closePrice = the order's price,
\* in memory and then in storage, it leaves projection B and the watch set,
\* the wallet row of the margin asset gets free += margin + realized profit
\* and locked -= margin (the margin before the close), and the leverage row
\* is unlocked: at rest no leverage row of a (user, symbol) without an open
\* position is locked
C30_FullCloseSettles ==
    /\ [](Rest => \A user \in Users, symbol \in Symbols :
              (\A p \in PosIds : ~(/\ positionModel[p].status = "NEW"
                                    /\ positionModel[p].user = user
                                    /\ positionModel[p].symbol = symbol))
                  => \A side \in Sides :
                         ~leverageModel[<<user, symbol, side>>].locked)
    /\ [][\A t \in TaskIds :
            LET order == tasks[t].order
                p == tasks'[t].current
                asset == SymbolInfo(order.symbol).quoteAsset.name
                row == <<order.user, asset>>
            IN  /\ CloseTaken(t)
                      => /\ positionObjects'[p].status = "CLOSED"
                         /\ positionObjects'[p].margin = 0
                         /\ positionObjects'[p].closePrice = order.price
                         /\ p \notin currentPositions'
                         /\ PositionHolder(p) \notin watchSymbols'[order.symbol]
                         /\ tasks'[t].locked = 0 - positionObjects[p].margin
                         /\ tasks'[t].free = positionObjects[p].margin
                               + RealizedPnL(positionObjects[p], order.price,
                                             order.fee)
                /\ CloseStored(t)
                      => /\ positionModel'[p].status = "CLOSED"
                         /\ positionModel'[p].margin = 0
                         /\ positionModel'[p].closePrice = order.price
                /\ ClosePaid(t)
                      => /\ walletModel'[row].free
                               = walletModel[row].free + tasks[t].free
                         /\ walletModel'[row].locked
                               = walletModel[row].locked + tasks[t].locked]_vars

\* the settlement of a reduce-only order larger than the position takes
\* the trim branch; the rewritten order is stored
TrimTaken(t) ==
    /\ tasks[t].pc = "pfp_hedge"
    /\ tasks'[t].pc = "pfp_trimOrder"
    /\ tasks'[t].branch = "trim"

TrimStored(t) ==
    tasks[t].pc = "pfp_trimOrder" /\ tasks'[t].pc = "pfp_update"

\* C31: a reduceOnly order larger than the opposite position is rewritten
\* to amount = positionAmt, with filledAmount, quoteAmount and
\* filledQuoteAmount recomputed from it; the fee left on it is the fee of
\* positionAmt at the order's price and feePerc; the position is closed
\* whole; and the rewritten order is what is stored
C31_ReduceOnlyTrim ==
    [][\A t \in TaskIds :
          LET order == tasks[t].order
              trimmed == tasks'[t].order
              p == tasks'[t].current
              amt == positionObjects[p].positionAmt
              feePerc == IF order.feePerc # 0 THEN order.feePerc
                         ELSE getUserFee(IF order.type = "LIMIT" THEN "maker"
                                         ELSE "taker", ExchangeOf(order.symbol))
          IN  /\ TrimTaken(t)
                    => /\ order.reduceOnly /\ order.amount > amt
                       /\ trimmed.amount = amt
                       /\ trimmed.filledAmount = amt
                       /\ trimmed.quoteAmount = amt * order.price
                       /\ trimmed.filledQuoteAmount = amt * order.price
                       /\ trimmed.fee = MulFee(amt * order.price, feePerc)
                       /\ positionObjects'[p].status = "CLOSED"
                       /\ positionObjects'[p].margin = 0
              /\ TrimStored(t)
                    => orderModel'[order.externalId] = order]_vars

\* C32: whenever another operation can run (no microtask is pending, so a
\* getOrder read, a tick scan, a fill or a cancel may look at B), B holds no
\* order whose stored status is FILLED, CANCELED or EXPIRED and no order
\* whose status in B is one of these
C32_TerminalAndRemovalAtomic ==
    Macro => \A id \in OrderIds :
                 currentOrders[id] # NoOrder
                     => /\ orderModel[id].status \notin Terminal
                        /\ currentOrders[id].status \notin Terminal

\* the reduce-only orders of the user of position `p` on its symbol that
\* are live in storage or held by projection B once the step is taken
LiveReduceOnlyAfter(p) ==
    {id \in OrderIds :
        \/ /\ orderModel'[id].status \in {"NEW", "PARTIALLY_FILLED"}
           /\ orderModel'[id].reduceOnly
           /\ orderModel'[id].user = positionObjects[p].user
           /\ orderModel'[id].symbol = positionObjects[p].symbol
        \/ /\ currentOrders'[id] # NoOrder
           /\ currentOrders'[id].reduceOnly
           /\ currentOrders'[id].user = positionObjects[p].user
           /\ currentOrders'[id].symbol = positionObjects[p].symbol}

\* C33: when closeFuturePosition submits the liquidation order, and when
\* the liquidation has completed, no reduce-only order of the position's
\* user and symbol is live in storage or held by projection B
C33_ReduceOnlyExpiredBeforeLiquidation ==
    [][\A t \in TaskIds :
          /\ (tasks[t].kind \in {"close", "cancel"} /\ tasks[t].position # 0
               /\ tasks'[t].kind = "createOrder" /\ tasks'[t].caller = "close")
                 => LiveReduceOnlyAfter(tasks[t].position) = {}
          /\ (tasks[t].kind = "createOrder" /\ tasks[t].caller = "close"
               /\ tasks'[t].kind = "idle")
                 => LiveReduceOnlyAfter(tasks[t].position) = {}]_vars

\* the open positions of projection B on `symbol` that `data` liquidates
Liquidated(symbol, data) ==
    {p \in currentPositions :
        /\ positionObjects[p].status = "NEW"
        /\ positionObjects[p].symbol = symbol
        /\ \/ /\ positionObjects[p].positionSide = "LONG"
              /\ positionObjects[p].liquidationPrice >= data.bestBid
           \/ /\ positionObjects[p].positionSide = "SHORT"
              /\ positionObjects[p].liquidationPrice <= data.bestAsk}

\* the tickers the scan is examined on: those of the market and one below
\* every liquidation price
ScanTicks ==
    FutTicks \cup {[bestBid |-> 40, bestAsk |-> 40, bidQty |-> 0, askQty |-> 0,
                    price |-> 40]}

\* the closeFuturePosition calls of a scan, in call order
CloseCalls(symbol, data) ==
    SelectSeq(tickCalls(symbol, data), LAMBDA call : call.kind = "close")

\* C34: the scan of a tick calls closeFuturePosition for exactly the open
\* positions of the symbol with (LONG and liquidationPrice >= bestBid) or
\* (SHORT and liquidationPrice <= bestAsk), each once, LONG ones by
\* ascending and SHORT ones by descending liquidationPrice; the
\* liquidations a tick starts are those of the scan; and the liquidation
\* of a position closes no other position
C34_LiquidationSelection ==
    /\ [](\A data \in ScanTicks :
            LET calls == CloseCalls(FutSymbol, data)
                liq(i) == positionObjects[calls[i].position].liquidationPrice
                side(i) == positionObjects[calls[i].position].positionSide
            IN  /\ {calls[i].position : i \in 1..Len(calls)}
                      = Liquidated(FutSymbol, data)
                /\ Len(calls) = Cardinality(Liquidated(FutSymbol, data))
                /\ \A i, j \in 1..Len(calls) :
                      i < j => /\ (side(i) = "LONG" /\ side(j) = "LONG")
                                     => liq(i) <= liq(j)
                               /\ (side(i) = "SHORT" /\ side(j) = "SHORT")
                                     => liq(i) >= liq(j))
    /\ [][/\ msg' # msg
             => {tasks'[t].position :
                    t \in {x \in TaskIds : /\ tasks[x].kind = "idle"
                                            /\ tasks'[x].kind = "close"}}
                  = Liquidated(msg'.symbol, msg'.data)
          /\ \A t \in TaskIds :
                (tasks[t].caller = "close" /\ tasks[t].pc = "pfp_hedge"
                 /\ tasks'[t].pc # "pfp_hedge")
                    => \A p \in PosIds \ {tasks[t].position} :
                           positionObjects[p].status = "NEW"
                               => positionObjects'[p].status = "NEW"]_vars

\* task t runs closeFuturePosition and holds the Common lock of its
\* position: in the body, or inside a call the body awaits
HoldsCommon(t) ==
    \/ tasks[t].kind = "close" /\ tasks[t].pc # "lock"
    \/ tasks[t].caller = "close"

\* task t has called a function decorated with CreateOrderMutex or
\* UpdateOrderMutex that has not returned: it waits for the lock or holds it
InCreateOrUpdate(t) == tasks[t].kind \in {"createOrder", "cancel", "limit"}

\* C35: no task takes, or waits for, a CreateOrder or UpdateOrder lock
\* while it holds a Common lock, the Common lock of the position uuid that
\* closeFuturePosition runs under included
C35_NoLockUnderCommon ==
    \A t \in TaskIds : ~(HoldsCommon(t) /\ InCreateOrUpdate(t))

\* task t runs the closeFuturePosition call, or an operation it awaits, of
\* a call that waited for the lock of its position's uuid behind an earlier
\* call for the same position, and this step is one of its own
SecondCloseStep(t) ==
    /\ tasks[t].waited
    /\ tasks[t].kind = "close" \/ tasks[t].caller = "close"
    /\ tasks[t].pc # "lock"
    /\ tasks'[t] # tasks[t]

\* C36: a position is closed by at most one liquidation.  When two ticks
\* select the same position before the first liquidation has finished, no
\* step of the second closeFuturePosition call, the cancels and the
\* createOrder it awaits included, stores an order or changes a wallet row
\* or a position.
C36_OneLiquidationPerPosition ==
    [][\A t \in TaskIds :
          SecondCloseStep(t)
              => UNCHANGED <<orderModel, walletModel, positionModel,
                             positionObjects, currentPositions>>]_vars

\* what the balance check of createOrder requires of the quote asset for a
\* stored BUY order: the quote amount of a spot order, the margin of a
\* futures order
Required(id) ==
    LET order == orderModel[id]
    IN  IF isFutures(ExchangeOf(order.symbol))
        THEN Div(order.quoteAmount,
                 leverageModel[<<order.user, order.symbol, "BOTH">>].leverage)
        ELSE order.quoteAmount

\* two accepted BUY orders of one user on different symbols with the same
\* quote asset
SharedAssetPair(a, b) ==
    /\ a # b
    /\ orderModel[a].status # "NONE" /\ orderModel[b].status # "NONE"
    /\ orderModel[a].user = orderModel[b].user
    /\ orderModel[a].side = "BUY" /\ orderModel[b].side = "BUY"
    /\ orderModel[a].symbol # orderModel[b].symbol
    /\ SymbolInfo(orderModel[a].symbol).quoteAsset.name
           = SymbolInfo(orderModel[b].symbol).quoteAsset.name

\* C37: the balance check and the debit of createOrder are atomic with
\* respect to every other debit of the same wallet row: in runs where
\* nothing credits the wallet, two createOrder calls of one user on
\* different symbols that share the quote asset are never both accepted
\* when the free balance covers only one of them.
C37_CheckAndDebitAtomic ==
    \A a, b \in OrderIds :
        SharedAssetPair(a, b) =>
            Required(a) + Required(b)
                <= InitFunds(SymbolInfo(orderModel[a].symbol).quoteAsset.name)

\* processLimitOrder is called for the order at this step
Evaluated(id) ==
    \E t \in TaskIds :
        /\ tasks[t].kind = "idle"
        /\ tasks'[t].kind = "limit"
        /\ tasks'[t].order.externalId = id

\* processLimitOrder is running or waiting for the order
InEvaluation(id) ==
    \E t \in TaskIds : tasks[t].kind = "limit" /\ tasks[t].order.externalId = id

\* C38: every fresh, in-order tick whose top of book crosses the price of
\* a live limit order of its symbol is evaluated against that order (unless
\* an earlier evaluation of the order is still under way), also when its
\* signature is the last one recorded for the symbol and the order was
\* registered after the earlier tick.
C38_CrossingTickIsEvaluated ==
    [][(msg' # msg /\ ~msg'.late)
          => \A id \in OrderIds :
                (/\ currentOrders[id].symbol = msg'.symbol
                 /\ currentOrders[id].type = "LIMIT"
                 /\ currentOrders[id].status \in {"NEW", "PARTIALLY_FILLED"}
                 /\ Touches(currentOrders[id], msg'.data)
                 /\ ~InEvaluation(id))
                    => Evaluated(id)]_vars

WaitCreateOrder(key) ==
    {t \in TaskIds : /\ tasks[t].kind = "createOrder"
                     /\ tasks[t].pc = "lock"
                     /\ <<tasks[t].order.user, tasks[t].order.symbol>> = key}

WaitUpdateOrder(id) ==
    {t \in TaskIds : /\ tasks[t].kind \in {"cancel", "limit"}
                     /\ tasks[t].pc = "lock"
                     /\ tasks[t].order.externalId = id}

WaitCommon(p) ==
    {t \in TaskIds : /\ tasks[t].kind = "close"
                     /\ tasks[t].pc = "lock"
                     /\ tasks[t].position = p}

\* the closeFuturePosition call of a uuid whose body has started
InCommon(p) ==
    {t \in TaskIds : /\ tasks[t].position = p
                     /\ \/ tasks[t].kind = "close" /\ tasks[t].pc # "lock"
                        \/ tasks[t].caller = "close"}

\* the entry of a key is locked exactly while one call runs under it, and
\* its queue holds exactly the calls that wait; without a holder there is
\* no entry
EntryMatches(entry, holders, waiters) ==
    /\ Cardinality(holders) <= 1
    /\ entry.locked <=> holders # {}
    /\ Len(entry.queue) = Cardinality(waiters)
    /\ {entry.queue[i] : i \in 1..Len(entry.queue)} = waiters
    /\ ~entry.locked => entry = Unlocked

\* when the holder of a key with waiting calls changes, the new holder is
\* the longest-waiting call and the others keep their places
CreateOrderHandOver(key) ==
    (CreateOrderMutex[key].queue # <<>> /\ InCreateOrder(key)' # InCreateOrder(key))
        => /\ InCreateOrder(key)' = {Head(CreateOrderMutex[key].queue)}
           /\ CreateOrderMutex'[key].queue = Tail(CreateOrderMutex[key].queue)

UpdateOrderHandOver(id) ==
    (UpdateOrderMutex[id].queue # <<>> /\ InUpdateOrder(id)' # InUpdateOrder(id))
        => /\ InUpdateOrder(id)' = {Head(UpdateOrderMutex[id].queue)}
           /\ UpdateOrderMutex'[id].queue = Tail(UpdateOrderMutex[id].queue)

CommonHandOver(p) ==
    (commonMutex[p].queue # <<>> /\ InCommon(p)' # InCommon(p))
        => /\ InCommon(p)' = {Head(commonMutex[p].queue)}
           /\ commonMutex'[p].queue = Tail(commonMutex[p].queue)

\* C40: IdMute releases the lock exactly once per acquisition, whether the
\* wrapped function resolves or rejects: an entry of lockMap is locked
\* exactly while one call runs under its key; a release hands the lock to
\* the longest-waiting call, and deletes the entry when none waits.  So
\* after a createOrder that throws 400 the next caller of the key runs.
C40_ReleasedOncePerAcquisition ==
    /\ [](/\ \A key \in Users \X Symbols :
                EntryMatches(CreateOrderMutex[key], InCreateOrder(key),
                             WaitCreateOrder(key))
          /\ \A id \in OrderIds :
                EntryMatches(UpdateOrderMutex[id], InUpdateOrder(id),
                             WaitUpdateOrder(id))
          /\ \A p \in PosIds :
                EntryMatches(commonMutex[p], InCommon(p), WaitCommon(p)))
    /\ [][/\ \A key \in Users \X Symbols : CreateOrderHandOver(key)
          /\ \A id \in OrderIds : UpdateOrderHandOver(id)
          /\ \A p \in PosIds : CommonHandOver(p)]_vars

\* a createOrder was rejected (its externalId was used and no order of it
\* is stored) and the lock of its key has passed to the call that follows
C40_Witness ==
    \E id \in ClientOrderIds, t \in TaskIds :
        /\ orderModel[id].status = "NONE"
        /\ \A o \in TaskIds : tasks[o].order.externalId # id
        /\ tasks[t].kind = "createOrder"
        /\ tasks[t].caller = ""
        /\ tasks[t].order.externalId > id
        /\ tasks[t].pc = "co_check"
        /\ CreateOrderMutex[<<tasks[t].order.user, tasks[t].order.symbol>>].locked

====
